---- MODULE Spec2Model ----
(***************************************************************************)
(* State-machine model of the VisualEditor surface coordination layer:     *)
(*   - ve.init.Target   (src/src/init/ve.init.Target.js)                   *)
(*   - ve.ui.Surface    (src/src/ui/ve.ui.Surface.js)                      *)
(*   - ve.Surface       (src/modules/ve/ve.Surface.js)                     *)
(* The module holds several machines over disjoint groups of variables,    *)
(* each with a specification of its own; the section "Specifications"      *)
(* lists them.  A step of one machine leaves the variables of the others   *)
(* unchanged.                                                              *)
(***************************************************************************)
EXTENDS Integers, Sequences, FiniteSets, TLC

(***************************************************************************)
(* Bounds of the model                                                     *)
(***************************************************************************)
\* number of surfaces Target.addSurface may create in one run
MaxSurfaces == 2
\* |activeToolbars| is kept within this bound by the event guards
MaxActive == 2
\* number of surface controllers constructed in one run
MaxControllers == 2
\* ve.scrollIntoView promises that may be unresolved at one time
MaxPending == 2
\* Target.destroy() calls whose continuation may be waiting at one time
MaxDestroys == 1
\* number of destroy() calls made on the surface controllers, in total
MaxDestroyCalls == 2
\* trigger strings that lead to a command in one trigger listener
MaxKeyBindings == 1
\* createProgress calls made on one surface controller
MaxProgress == 3
\* triggers registered after the ve.Surface has been constructed
MaxLegacyRegisters == 1
\* 'select' events counted in one burst
MaxBurst == 3
\* connect() calls the Target makes on one toolbar
MaxConnects == 2
\* requestAnimationFrame callbacks that may be waiting at one time
MaxFrames == 1
\* Targets constructed on one page
MaxTargets == 3

(***************************************************************************)
(* Values                                                                  *)
(***************************************************************************)
\* `null` for object references (this.surface = null)
Null == 0

\* Surface controllers are identified by 1..MaxSurfaces in creation order.
\* The last identifier is a controller that exists (Target.createSurface)
\* but is never handed to addSurface.
SurfaceIds == 1..(MaxSurfaces + 1)

ErrNotAdded == "Active surface must have been added first"
ErrTypeError == "TypeError"
NoError == "none"

VARIABLES
    \* ---- ve.init.Target ----
    surfaces,         \* this.surfaces: sequence of surface ids
    surface,          \* this.surface: active surface id or Null
    toolbar,          \* this.toolbar exists (TRUE) or is null (FALSE)
    actionsToolbar,   \* this.actionsToolbar exists or is null
    toolbarSurface,   \* surface the toolbars were last set up with, or Null
    handlersBound,    \* keydown/scroll handlers bound
    teardownPromise,  \* "null" | "pending" | "resolved"
    activeToolbars,   \* this.activeToolbars
    wasSurfaceActive, \* this.wasSurfaceActive: "null" | "true" | "false"
    deactivated,      \* view.deactivated of each surface's view
    destroyed,        \* surfaces whose destroy() has run
    created,          \* number of surfaces addSurface has created
    thrown,           \* error thrown by the last call, or NoError
    promisesMade,     \* number of promise objects teardown() has created;
                      \* the latest is the one held in this.teardownPromise
    rootRemoved,      \* this.$element has been removed from the DOM
    veInitTarget,     \* the global ve.init.target: "this" | "null"
    destroyPending,   \* destroy() continuations waiting for the teardown
                      \* promise
    \* ---- observation of the Target's run ----
    lastCall,         \* the operation that ran last
    g_pre,            \* view.deactivated of the active view just before
                      \* activeToolbars last left 0
    g_quiet,          \* since activeToolbars last left 0 the active surface
                      \* and every view's activation were touched by
                      \* onToolbarActive only
    firstReturned,    \* the promise the first teardown() call returned
                      \* (0 before the first call)
    lastReturned,     \* the promise the last teardown() call returned
    teardownLog,      \* what teardown() and its continuation did, in order
    destroyLog,       \* the surfaces destroyed, in order of destruction
    \* ---- ve.ui.Surface: read-only state and placeholder ----
    built,            \* controllers whose constructor has run
    model,            \* this.model of each controller (a model id) or Null
    documentOf,       \* the document (an id) of each surface model, or Null
    readOnly,         \* this.readOnly of each controller
    viewReadOnly,     \* read-only state of each controller's view
    modelReadOnly,    \* read-only state of each surface model
    content,          \* number of content nodes in each model's document
    placeholder,      \* this.placeholder of each controller
    placeholderVisible, \* this.placeholderVisible of each controller
    \* ---- observation of the controllers' run ----
    emitted,          \* what the listeners of the last operation's
                      \* notification observed
    surfaceCall,      \* the operation that ran last
    \* ---- ve.ui.Surface: padding and scroll-into-view ----
    padding,          \* this.padding
    toolbarHeight,    \* this.toolbarHeight
    isMobile,         \* OO.ui.isMobile()
    scrollTop,        \* scroll position of this.$scrollContainer
    pendingScrolls,   \* ve.scrollIntoView promises not yet resolved
    \* ---- observation of the controller's run ----
    geoEmitted,       \* notification emitted by the last step
    geoCall,          \* the operation that ran last, with its inputs
    \* ---- ve.ui.Surface: command dispatch ----
    registry,         \* command registry: the trigger string each command
                      \* name is registered with
    dispatcher,       \* the controller has been constructed
    commands,         \* this.commands
    commandsByTrigger, \* this.triggerListener: trigger string -> command
    \* ---- observation of the dispatch ----
    registryAtBuild,  \* the registry as it was when the controller was
                      \* constructed
    cmdCall,          \* the last call and its arguments
    cmdResult,        \* what the last executeWithSource call returned
    cmdInvoked,       \* the calls executeWithSource made, in order
    cmdThrown,        \* the last call threw
    \* ---- ve.ui.Surface: life cycle and event bindings ----
    life,             \* each controller: "none" | "alive" | "destroyed"
    lcModel,          \* this.model of each controller, or Null
    lcDocument,       \* the document of each surface model, or Null
    bindings,         \* the connections made with connect(): the emitter,
                      \* its event, and the controller whose handler runs
    debugBar,         \* this.debugBar of each controller is set
    \* ---- observation of the life cycle ----
    destroyCalls,     \* number of destroy() calls made on each controller
    destroyEmits,     \* number of 'destroy' notifications of each controller
    destroyTrace,     \* what the last destroy() call did, in order
    lcThrown,         \* the last call threw
    lcInvoked,        \* the handlers the last event invoked
    lcCall,           \* the operation that ran last
    \* ---- ve.init.Target: editing modes and the surfaces it creates ----
    modes,            \* this.modes
    defaultMode,      \* this.defaultMode, "undefined" before it is set
    classes,          \* the classes of this.$element
    targetBuilt,      \* the constructor of the Target has run
    modeCall,         \* the operation that ran last, with what it returned
    \* ---- ve.init.Target: key-down handlers ----
    documentTriggerListener, \* trigger string -> command name, or ""
    targetTriggerListener,   \* trigger string -> command name, or ""
    keyCall,          \* the last key-down event and what its handler did
    \* ---- ve.init.Target: floating toolbar ----
    floatable,        \* toolbar.isFloatable()
    floating,         \* toolbar.isFloating()
    toolbarScrollOffset, \* this.toolbarScrollOffset
    toolgroupActive,  \* isActive() of each toolgroup of the toolbar
    floatCall,        \* the last scroll event and what its handler did
    \* ---- ve.ui.Surface: progress bars ----
    progresses,       \* this.progresses
    flushPending,     \* the timer of showProgressDebounced is armed
    opened,           \* the batches given to the progress dialog, in order
    progressCreated,  \* number of createProgress calls made
    progressCall,     \* the operation that ran last
    \* ---- ve.Surface (src/modules/ve): command setup and execute ----
    legacyCommandRegistry, \* ve.commandRegistry: the registered names
    legacyTriggerRegistry, \* ve.triggerRegistry: the data of each name
    legacyOptions,    \* this.options.commands
    legacyCommands,   \* this.commands: trigger string -> command, or ""
    legacyBuilt,      \* the constructor: "none" | "built" | "failed"
    legacyListening,  \* the 'register' handler is bound
    legacyEnabled,    \* this.enabled
    legacyRegisters,  \* number of triggers registered after construction
    legacyCall,       \* the operation that ran last and what it did
    \* ---- ve.ui.Surface: selection events and the debounced scroll ----
    viewDragging,     \* this.getView().dragging
    selection,        \* the selection of the model: native cursor or not
    scrollTimer,      \* the timer of scrollSelectionIntoViewDebounced is
                      \* armed
    resizeTimer,      \* the timer of the debounced onContextResize is armed
    selectBurst,      \* 'select' events that armed or re-armed the scroll
                      \* timer since it last fired
    selectCall,       \* the event or timer that ran last
    \* ---- ve.init.Target: the events of its toolbars ----
    toolbarConnects,  \* connect() calls the Target made on this.toolbar
    actionsConnects,  \* connect() calls it made on this.actionsToolbar
    frames,           \* requestAnimationFrame callbacks not yet run
    emitting,         \* the toolbar event being emitted, and the handler
                      \* invocations it still has to make
    toolbarDeactivated, \* the views onToolbarActive deactivated and has not
                      \* activated again
    wiringCall,       \* the operation that ran last
    \* ---- several Targets and the global reference ----
    veInitTargetRef,  \* ve.init.target: a Target, or Null
    targetObjects,    \* per Target: constructed, its teardown promise, the
                      \* destroy() continuations waiting, its root removed
    globalCall        \* the operation that ran last

toolbarVars == <<toolbar, actionsToolbar, toolbarSurface>>
activeVars == <<activeToolbars, wasSurfaceActive, deactivated>>
targetVars == <<surfaces, surface, toolbar, actionsToolbar, toolbarSurface,
                handlersBound, teardownPromise, activeToolbars,
                wasSurfaceActive, deactivated, destroyed, created, thrown,
                promisesMade, rootRemoved, veInitTarget, destroyPending>>
destroyVars == <<rootRemoved, veInitTarget, destroyPending>>
targetObs == <<lastCall, g_pre, g_quiet, firstReturned, lastReturned,
               teardownLog, destroyLog>>
targetAll == <<targetVars, targetObs>>
surfaceVars == <<built, model, documentOf, readOnly, viewReadOnly, modelReadOnly, content,
                 placeholder, placeholderVisible>>
surfaceAll == <<surfaceVars, emitted, surfaceCall>>
geometryVars == <<padding, toolbarHeight, isMobile, scrollTop, pendingScrolls>>
geometryAll == <<geometryVars, geoEmitted, geoCall>>
commandVars == <<registry, dispatcher, commands, commandsByTrigger>>
commandAll == <<commandVars, registryAtBuild, cmdCall, cmdResult, cmdInvoked,
                cmdThrown>>
lifecycleVars == <<life, lcModel, lcDocument, bindings, debugBar>>
lifecycleAll == <<lifecycleVars, destroyCalls, destroyEmits, destroyTrace,
                  lcThrown, lcInvoked, lcCall>>
modeAll == <<modes, defaultMode, classes, targetBuilt, modeCall>>
keyAll == <<documentTriggerListener, targetTriggerListener, keyCall>>
floatAll == <<floatable, floating, toolbarScrollOffset, toolgroupActive,
              floatCall>>
progressAll == <<progresses, flushPending, opened, progressCreated,
                 progressCall>>
legacyAll == <<legacyCommandRegistry, legacyTriggerRegistry, legacyOptions,
               legacyCommands, legacyBuilt, legacyListening, legacyEnabled,
               legacyRegisters, legacyCall>>
\* the groups of the machines that follow the progress bars
selectAll == <<viewDragging, selection, scrollTimer, resizeTimer,
               selectBurst, selectCall>>
wiringAll == <<toolbarConnects, actionsConnects, frames, emitting,
               toolbarDeactivated, wiringCall>>
globalAll == <<veInitTargetRef, targetObjects, globalCall>>
laterAll == <<legacyAll, selectAll, wiringAll, globalAll>>
\* the groups of the machines up to the progress bars
baseAll == <<targetAll, surfaceAll, geometryAll, commandAll, lifecycleAll,
             modeAll, keyAll, floatAll, progressAll>>
vars == <<baseAll, laterAll>>

(***************************************************************************)
(* Helpers                                                                 *)
(***************************************************************************)
\* Array.prototype.indexOf on this.surfaces, -1 when absent
IndexOf(seq, x) ==
    IF \E i \in 1..Len(seq) : seq[i] = x
    THEN (CHOOSE i \in 1..Len(seq) : seq[i] = x /\ \A j \in 1..(i - 1) : seq[j] # x) - 1
    ELSE -1

Range(seq) == { seq[i] : i \in 1..Len(seq) }

Call(op, s, active) == [op |-> op, surface |-> s, active |-> active]

(***************************************************************************)
(* ve.init.Target                                                          *)
(***************************************************************************)
TargetInit ==
    /\ surfaces = <<>>
    /\ surface = Null
    /\ toolbar = FALSE
    /\ actionsToolbar = FALSE
    /\ toolbarSurface = Null
    /\ handlersBound = TRUE
    /\ teardownPromise = "null"
    /\ activeToolbars = 0
    /\ wasSurfaceActive = "null"
    /\ deactivated = [s \in SurfaceIds |-> FALSE]
    /\ destroyed = {}
    /\ created = 0
    /\ thrown = NoError
    /\ promisesMade = 0
    /\ rootRemoved = FALSE
    /\ veInitTarget = "this"
    /\ destroyPending = 0
    /\ lastCall = Call("constructor", Null, FALSE)
    /\ g_pre = FALSE
    /\ g_quiet = FALSE
    /\ firstReturned = 0
    /\ lastReturned = 0
    /\ teardownLog = <<>>
    /\ destroyLog = <<>>

\* ve.ce.Surface#deactivate / #activate on the view of surface s
ViewDeactivate(s) == deactivated' = [deactivated EXCEPT ![s] = TRUE]
ViewActivate(s) == deactivated' = [deactivated EXCEPT ![s] = FALSE]

\* getToolbar() and getActions() create the toolbars lazily; toolbar.setup
\* and actions.setup bind them to the surface
setupToolbar(s) ==
    /\ toolbar' = TRUE
    /\ actionsToolbar' = TRUE
    /\ toolbarSurface' = s
\* Variant of setSurface without the membership check
setSurface_unchecked(s) ==
    /\ thrown' = NoError
    /\ IF s # surface
       THEN /\ surface' = s
            /\ setupToolbar(s)
       ELSE UNCHANGED <<surface, toolbarVars>>

\* Variant of setSurface that sets up the toolbar for the active surface
\* too
setSurface_always(s) ==
    IF IndexOf(surfaces, s) = -1
    THEN /\ thrown' = ErrNotAdded
         /\ UNCHANGED <<surface, toolbarVars>>
    ELSE /\ thrown' = NoError
         /\ surface' = s
         /\ setupToolbar(s)

setSurface(s) ==
    IF IndexOf(surfaces, s) = -1
    THEN /\ thrown' = ErrNotAdded
         /\ UNCHANGED <<surface, toolbarVars>>
    ELSE /\ thrown' = NoError
         /\ IF s # surface
            THEN /\ surface' = s
                 /\ setupToolbar(s)
            ELSE UNCHANGED <<surface, toolbarVars>>

onSurfaceViewFocus(s) == setSurface(s)

addSurface ==
    /\ created' = created + 1
    /\ surfaces' = Append(surfaces, created + 1)
    /\ thrown' = NoError
RECURSIVE PopAndDestroy(_, _)
\* while ( this.surfaces.length ) { this.surfaces.pop().destroy(); }
\* the surfaces destroyed are appended to log in the order of destruction
PopAndDestroy(stack, log) ==
    IF Len(stack) = 0
    THEN log
    ELSE PopAndDestroy(SubSeq(stack, 1, Len(stack) - 1),
                       Append(log, stack[Len(stack)]))

\* Variant of clearSurfaces that leaves this.surface in place
clearSurfaces_keepActive ==
    /\ surface' = surface
    /\ destroyed' = destroyed \cup Range(surfaces)
    /\ destroyLog' = PopAndDestroy(surfaces, destroyLog)
    /\ surfaces' = <<>>

\* Variant of clearSurfaces that takes the surfaces from the front
\* (shift() in place of pop())
clearSurfaces_shift ==
    /\ surface' = Null
    /\ destroyed' = destroyed \cup Range(surfaces)
    /\ destroyLog' = destroyLog \o surfaces
    /\ surfaces' = <<>>

clearSurfaces ==
    /\ surface' = Null
    /\ destroyed' = destroyed \cup Range(surfaces)
    /\ destroyLog' = PopAndDestroy(surfaces, destroyLog)
    /\ surfaces' = <<>>

teardownToolbar ==
    /\ toolbar' = FALSE
    /\ actionsToolbar' = FALSE
    /\ UNCHANGED toolbarSurface

\* Variant of teardown without the memo of this.teardownPromise
teardown_noMemo ==
    /\ thrown' = NoError
    /\ handlersBound' = FALSE
    /\ teardownToolbar
    /\ teardownPromise' = "pending"
    /\ promisesMade' = promisesMade + 1
    /\ teardownLog' = teardownLog \o
           << "unbindHandlers", "teardownToolbar", "toolbarResolved" >>
    /\ lastReturned' = promisesMade'
    /\ firstReturned' = IF firstReturned = 0 THEN promisesMade' ELSE firstReturned

\* teardownToolbar() returns an already resolved promise; the promise kept
\* in this.teardownPromise is the one .then() derives from it, pending until
\* the continuation (teardownThen) has run
teardown ==
    /\ thrown' = NoError
    /\ IF teardownPromise = "null"
       THEN /\ handlersBound' = FALSE
            /\ teardownToolbar
            /\ teardownPromise' = "pending"
            /\ promisesMade' = promisesMade + 1
            /\ teardownLog' = teardownLog \o
                   << "unbindHandlers", "teardownToolbar", "toolbarResolved" >>
       ELSE UNCHANGED <<handlersBound, toolbarVars, teardownPromise,
                        promisesMade, teardownLog>>
    /\ lastReturned' = promisesMade'
    /\ firstReturned' = IF firstReturned = 0 THEN promisesMade' ELSE firstReturned

\* destroy(): teardown().then( remove the root, clear ve.init.target )
destroy ==
    /\ teardown
    /\ destroyPending' = destroyPending + 1

\* the continuation of destroy(), run once the teardown promise is resolved
destroyThen ==
    /\ teardownPromise = "resolved"
    /\ rootRemoved' = TRUE
    /\ veInitTarget' = "null"
    /\ destroyPending' = destroyPending - 1
    /\ thrown' = NoError
\* Variant of onToolbarActive that treats the toolbars as one flag: any
\* active(false) re-activates the view
onToolbarActive_flag(active) ==
    IF surface = Null
    THEN /\ thrown' = ErrTypeError
         /\ UNCHANGED activeVars
    ELSE /\ thrown' = NoError
         /\ IF active
            THEN /\ activeToolbars' = activeToolbars + 1
                 /\ IF activeToolbars + 1 = 1
                    THEN /\ wasSurfaceActive' =
                               IF ~deactivated[surface] THEN "true" ELSE "false"
                         /\ IF ~deactivated[surface]
                            THEN ViewDeactivate(surface)
                            ELSE UNCHANGED deactivated
                    ELSE UNCHANGED <<wasSurfaceActive, deactivated>>
            ELSE /\ activeToolbars' = activeToolbars - 1
                 /\ UNCHANGED wasSurfaceActive
                 /\ IF wasSurfaceActive = "true"
                    THEN ViewActivate(surface)
                    ELSE UNCHANGED deactivated

\* Variant of onToolbarActive that does not consult wasSurfaceActive when
\* the counter returns to 0
onToolbarActive_alwaysActivate(active) ==
    IF surface = Null
    THEN /\ thrown' = ErrTypeError
         /\ UNCHANGED activeVars
    ELSE /\ thrown' = NoError
         /\ IF active
            THEN /\ activeToolbars' = activeToolbars + 1
                 /\ IF activeToolbars + 1 = 1
                    THEN /\ wasSurfaceActive' =
                               IF ~deactivated[surface] THEN "true" ELSE "false"
                         /\ IF ~deactivated[surface]
                            THEN ViewDeactivate(surface)
                            ELSE UNCHANGED deactivated
                    ELSE UNCHANGED <<wasSurfaceActive, deactivated>>
            ELSE /\ activeToolbars' = activeToolbars - 1
                 /\ UNCHANGED wasSurfaceActive
                 /\ IF activeToolbars - 1 = 0
                    THEN ViewActivate(surface)
                    ELSE UNCHANGED deactivated

\* Variant of onToolbarActive that records and deactivates on every
\* active(true), not only on the first
onToolbarActive_everyTime(active) ==
    IF surface = Null
    THEN /\ thrown' = ErrTypeError
         /\ UNCHANGED activeVars
    ELSE /\ thrown' = NoError
         /\ IF active
            THEN /\ activeToolbars' = activeToolbars + 1
                 /\ wasSurfaceActive' =
                       IF ~deactivated[surface] THEN "true" ELSE "false"
                 /\ IF ~deactivated[surface]
                    THEN ViewDeactivate(surface)
                    ELSE UNCHANGED deactivated
            ELSE /\ activeToolbars' = activeToolbars - 1
                 /\ UNCHANGED wasSurfaceActive
                 /\ IF activeToolbars - 1 = 0 /\ wasSurfaceActive = "true"
                    THEN ViewActivate(surface)
                    ELSE UNCHANGED deactivated

onToolbarActive(active) ==
    IF surface = Null
    THEN /\ thrown' = ErrTypeError
         /\ UNCHANGED activeVars
    ELSE /\ thrown' = NoError
         /\ IF active
            THEN /\ activeToolbars' = activeToolbars + 1
                 /\ IF activeToolbars + 1 = 1
                    THEN /\ wasSurfaceActive' =
                               IF ~deactivated[surface] THEN "true" ELSE "false"
                         /\ IF ~deactivated[surface]
                            THEN ViewDeactivate(surface)
                            ELSE UNCHANGED deactivated
                    ELSE UNCHANGED <<wasSurfaceActive, deactivated>>
            ELSE /\ activeToolbars' = activeToolbars - 1
                 /\ UNCHANGED wasSurfaceActive
                 /\ IF activeToolbars - 1 = 0 /\ wasSurfaceActive = "true"
                    THEN ViewActivate(surface)
                    ELSE UNCHANGED deactivated

\* the jQuery promise continuation of teardown(): .then( clearSurfaces )
teardownThen ==
    /\ teardownLog' = Append(teardownLog, "clearSurfaces")
    /\ clearSurfaces
    /\ teardownPromise' = "resolved"
    /\ thrown' = NoError

(***************************************************************************)
(* Steps of the Target machine: one per public operation or event          *)
(***************************************************************************)
\* Observation of a step: the call, and the bookkeeping of g_pre / g_quiet
Observe(op, s, active) ==
    /\ lastCall' = Call(op, s, active)
    /\ IF op = "onToolbarActive" /\ active /\ thrown' = NoError
          /\ activeToolbars' = 1
       THEN /\ g_quiet' = TRUE
            /\ g_pre' = deactivated[surface]
       ELSE /\ g_pre' = g_pre
            /\ g_quiet' = ( /\ g_quiet
                            /\ \/ op = "onToolbarActive"
                               \/ surface' = surface /\ deactivated' = deactivated )

AddSurface ==
    /\ created < MaxSurfaces
    /\ addSurface
    /\ UNCHANGED <<surface, toolbarVars, handlersBound, teardownPromise,
                   activeVars, destroyed, destroyLog, promisesMade,
                   teardownLog, firstReturned, lastReturned, destroyVars>>
    /\ Observe("addSurface", created + 1, FALSE)
    /\ UNCHANGED <<surfaceAll, geometryAll, commandAll, lifecycleAll,
                 modeAll, keyAll, floatAll, progressAll, laterAll>>

SetSurface ==
    \E s \in SurfaceIds :
        /\ setSurface(s)
        /\ UNCHANGED <<surfaces, handlersBound, teardownPromise, activeVars,
                       destroyed, created, destroyLog, promisesMade,
                       teardownLog, firstReturned, lastReturned, destroyVars>>
        /\ Observe("setSurface", s, FALSE)
        /\ UNCHANGED <<surfaceAll, geometryAll, commandAll, lifecycleAll,
                 modeAll, keyAll, floatAll, progressAll, laterAll>>

\* 'focus' event of the view of a living surface
SurfaceViewFocus ==
    \E s \in Range(surfaces) :
        /\ onSurfaceViewFocus(s)
        /\ UNCHANGED <<surfaces, handlersBound, teardownPromise, activeVars,
                       destroyed, created, destroyLog, promisesMade,
                       teardownLog, firstReturned, lastReturned, destroyVars>>
        /\ Observe("onSurfaceViewFocus", s, FALSE)
        /\ UNCHANGED <<surfaceAll, geometryAll, commandAll, lifecycleAll,
                 modeAll, keyAll, floatAll, progressAll, laterAll>>

ClearSurfaces ==
    /\ clearSurfaces
    /\ thrown' = NoError
    /\ UNCHANGED <<toolbarVars, handlersBound, teardownPromise, activeVars,
                   created, promisesMade, teardownLog, firstReturned,
                   lastReturned, destroyVars>>
    /\ Observe("clearSurfaces", Null, FALSE)
    /\ UNCHANGED <<surfaceAll, geometryAll, commandAll, lifecycleAll,
                 modeAll, keyAll, floatAll, progressAll, laterAll>>

Teardown ==
    /\ teardown
    /\ UNCHANGED <<surfaces, surface, activeVars, destroyed, created,
                   destroyLog, destroyVars>>
    /\ Observe("teardown", Null, FALSE)
    /\ UNCHANGED <<surfaceAll, geometryAll, commandAll, lifecycleAll,
                 modeAll, keyAll, floatAll, progressAll, laterAll>>

Destroy ==
    /\ destroyPending < MaxDestroys
    /\ destroy
    /\ UNCHANGED <<surfaces, surface, activeVars, destroyed, created,
                   destroyLog, rootRemoved, veInitTarget>>
    /\ Observe("destroy", Null, FALSE)
    /\ UNCHANGED <<surfaceAll, geometryAll, commandAll, lifecycleAll,
                 modeAll, keyAll, floatAll, progressAll, laterAll>>

DestroyThen ==
    /\ destroyPending > 0
    /\ destroyThen
    /\ UNCHANGED <<surfaces, surface, toolbarVars, handlersBound,
                   teardownPromise, activeVars, destroyed, created,
                   destroyLog, promisesMade, teardownLog, firstReturned,
                   lastReturned>>
    /\ Observe("destroyThen", Null, FALSE)
    /\ UNCHANGED <<surfaceAll, geometryAll, commandAll, lifecycleAll,
                 modeAll, keyAll, floatAll, progressAll, laterAll>>

TeardownThen ==
    /\ teardownPromise = "pending"
    /\ teardownThen
    /\ UNCHANGED <<toolbarVars, handlersBound, activeVars, created,
                   promisesMade, firstReturned, lastReturned, destroyVars>>
    /\ Observe("teardownThen", Null, FALSE)
    /\ UNCHANGED <<surfaceAll, geometryAll, commandAll, lifecycleAll,
                 modeAll, keyAll, floatAll, progressAll, laterAll>>

\* 'active' event of the toolbar or of the actions toolbar
ToolbarActive ==
    \E active \in BOOLEAN :
        /\ toolbar \/ actionsToolbar
        /\ active => activeToolbars < MaxActive
        /\ ~active => activeToolbars > -MaxActive
        /\ onToolbarActive(active)
        /\ UNCHANGED <<surfaces, surface, toolbarVars, handlersBound,
                       teardownPromise, destroyed, created, destroyLog,
                       promisesMade, teardownLog, firstReturned,
                       lastReturned, destroyVars>>
        /\ Observe("onToolbarActive", surface, active)
        /\ UNCHANGED <<surfaceAll, geometryAll, commandAll, lifecycleAll,
                 modeAll, keyAll, floatAll, progressAll, laterAll>>

\* The view of a living surface is deactivated or activated by something
\* other than the Target (an inspector opens or closes, the user focuses)
ViewActivation ==
    \E s \in Range(surfaces), d \in BOOLEAN :
        /\ deactivated[s] # d
        /\ IF d THEN ViewDeactivate(s) ELSE ViewActivate(s)
        /\ thrown' = NoError
        /\ UNCHANGED <<surfaces, surface, toolbarVars, handlersBound,
                       teardownPromise, activeToolbars, wasSurfaceActive,
                       destroyed, created, destroyLog, promisesMade,
                       teardownLog, firstReturned, lastReturned, destroyVars>>
        /\ Observe("viewActivation", s, d)
        /\ UNCHANGED <<surfaceAll, geometryAll, commandAll, lifecycleAll,
                 modeAll, keyAll, floatAll, progressAll, laterAll>>

TargetNext ==
    \/ AddSurface
    \/ SetSurface
    \/ SurfaceViewFocus
    \/ ClearSurfaces
    \/ Teardown
    \/ TeardownThen
    \/ Destroy
    \/ DestroyThen
    \/ ToolbarActive
    \/ ViewActivation

(***************************************************************************)
(* ve.ui.Surface: construction, read-only state, placeholder               *)
(*                                                                         *)
(* Handlers are functions from a controller-state record to the record     *)
(* after the handler, so that the statements of a handler apply in the     *)
(* order of the source and a notification records what its listeners see.  *)
(***************************************************************************)
Ctl == 1..MaxControllers
\* The surface model and the document a controller creates carry its id
Models == Ctl
Docs == Ctl

\* content nodes a document may hold: none, or one
ContentCounts == { 0, 1 }
\* config.placeholder / setPlaceholder argument: absent, empty, or a text
Placeholders == { "undefined", "", "Start typing" }
\* JavaScript truthiness of a placeholder value
Truthy(p) == p \notin { "undefined", "" }

SurfaceState ==
    [ built |-> built, model |-> model, documentOf |-> documentOf,
      readOnly |-> readOnly, viewReadOnly |-> viewReadOnly,
      modelReadOnly |-> modelReadOnly, content |-> content,
      placeholder |-> placeholder, placeholderVisible |-> placeholderVisible,
      emitted |-> <<>> ]

SurfaceInit ==
    /\ built = {}
    /\ model = [c \in Ctl |-> Null]
    /\ documentOf = [m \in Models |-> Null]
    /\ readOnly = [c \in Ctl |-> FALSE]
    /\ viewReadOnly = [c \in Ctl |-> FALSE]
    /\ modelReadOnly = [m \in Models |-> FALSE]
    /\ content = [d \in Docs |-> 0]
    /\ placeholder = [c \in Ctl |-> "undefined"]
    /\ placeholderVisible = [c \in Ctl |-> FALSE]
    /\ emitted = <<>>
    /\ surfaceCall = [op |-> "none", ctl |-> Null, arg |-> ""]

\* this.getModel().getDocument() of controller c
getDocument(st, c) == st.documentOf[st.model[c]]

\* ve.dm.ElementLinearData#hasContent of the document of controller c
hasContent(st, c) == st.content[getDocument(st, c)] > 0

\* this.emit( event, arg ) of controller c: every listener runs now and
\* observes the state reached so far
emit(st, c, event, arg) ==
    [st EXCEPT !.emitted = Append(@,
        [ event |-> event, ctl |-> c, arg |-> arg,
          sawReadOnly |-> st.readOnly[c],
          sawModel |-> st.modelReadOnly[st.model[c]],
          sawView |-> st.viewReadOnly[c] ])]

updatePlaceholder(st, c) ==
    [st EXCEPT !.placeholderVisible[c] = ~hasContent(st, c)]

setPlaceholder(st, c, p) ==
    LET s1 == [st EXCEPT !.placeholder[c] = p]
    IN  IF Truthy(p)
        THEN updatePlaceholder(s1, c)
        ELSE [s1 EXCEPT !.placeholderVisible[c] = FALSE]
\* Variant of onDocumentTransact that never refreshes the placeholder
onDocumentTransact_stale(st, c) == st

onDocumentTransact(st, c) ==
    IF Truthy(st.placeholder[c]) THEN updatePlaceholder(st, c) ELSE st
\* Variant of setReadOnly that notifies before the view is updated
setReadOnly_emitEarly(st, c, r) ==
    LET s1 == [st EXCEPT !.readOnly[c] = r]
        s2 == [s1 EXCEPT !.modelReadOnly[s1.model[c]] = r]
        s3 == emit(s2, c, "readOnly", r)
    IN  [s3 EXCEPT !.viewReadOnly[c] = r]

setReadOnly(st, c, r) ==
    LET s1 == [st EXCEPT !.readOnly[c] = r]
        s2 == [s1 EXCEPT !.modelReadOnly[s1.model[c]] = r]
        s3 == [s2 EXCEPT !.viewReadOnly[c] = r]
    IN  emit(s3, c, "readOnly", r)

\* What the constructor is given: raw data or an HTML document (a new
\* document with n content nodes), a document model d, or a surface model m
Sources(st) ==
    { [kind |-> "data", id |-> n] : n \in ContentCounts }
    \cup { [kind |-> "document", id |-> st.documentOf[st.model[b]]] : b \in st.built }
    \cup { [kind |-> "surface", id |-> st.model[b]] : b \in st.built }

\* new ve.ui.Surface( target, dataOrDocOrSurface, config ) as controller c
VeUiSurface(st, c, src, cfgPlaceholder, cfgReadOnly) ==
    LET s1 == IF src.kind = "surface"
              THEN [st EXCEPT !.model[c] = src.id]
              ELSE IF src.kind = "document"
              THEN [st EXCEPT !.model[c] = c,
                              !.documentOf[c] = src.id,
                              !.modelReadOnly[c] = FALSE]
              ELSE [st EXCEPT !.model[c] = c,
                              !.documentOf[c] = c,
                              !.content[c] = src.id,
                              !.modelReadOnly[c] = FALSE]
        s2 == [s1 EXCEPT !.viewReadOnly[c] = FALSE,
                         !.placeholder[c] = "undefined",
                         !.placeholderVisible[c] = FALSE]
        s3 == setPlaceholder(s2, c, cfgPlaceholder)
        s4 == setReadOnly(s3, c, cfgReadOnly)
    IN  [s4 EXCEPT !.built = @ \cup {c}]

\* A transaction is committed to document d, leaving it with n content
\* nodes; the document emits 'transact' to every controller connected to it
transact(st, d, n) ==
    LET s1 == [st EXCEPT !.content[d] = n]
    IN  [s1 EXCEPT !.placeholderVisible =
            [c \in Ctl |->
                IF c \in s1.built /\ getDocument(s1, c) = d
                THEN onDocumentTransact(s1, c).placeholderVisible[c]
                ELSE s1.placeholderVisible[c]]]

(***************************************************************************)
(* Steps of the controller machine                                         *)
(***************************************************************************)
SurfaceStep(st, op, c, arg) ==
    /\ built' = st.built
    /\ model' = st.model
    /\ documentOf' = st.documentOf
    /\ readOnly' = st.readOnly
    /\ viewReadOnly' = st.viewReadOnly
    /\ modelReadOnly' = st.modelReadOnly
    /\ content' = st.content
    /\ placeholder' = st.placeholder
    /\ placeholderVisible' = st.placeholderVisible
    /\ emitted' = st.emitted
    /\ surfaceCall' = [op |-> op, ctl |-> c, arg |-> arg]
    /\ UNCHANGED <<targetAll, geometryAll, commandAll, lifecycleAll,
                 modeAll, keyAll, floatAll, progressAll, laterAll>>

BoolStr(b) == IF b THEN "true" ELSE "false"

Construct ==
    /\ Cardinality(built) < MaxControllers
    /\ \E src \in Sources(SurfaceState), p \in Placeholders, r \in BOOLEAN :
          LET c == Cardinality(built) + 1
          IN  SurfaceStep(VeUiSurface(SurfaceState, c, src, p, r),
                          "constructor", c, src.kind)

SetReadOnly ==
    \E c \in built, r \in BOOLEAN :
        SurfaceStep(setReadOnly(SurfaceState, c, r), "setReadOnly", c, BoolStr(r))

SetPlaceholder ==
    \E c \in built, p \in Placeholders :
        SurfaceStep(setPlaceholder(SurfaceState, c, p), "setPlaceholder", c, p)

DocumentTransact ==
    \E c \in built, n \in ContentCounts :
        LET d == getDocument(SurfaceState, c)
        IN  SurfaceStep(transact(SurfaceState, d, n), "transact", d,
                        IF n > content[d] THEN "insert"
                        ELSE IF n < content[d] THEN "remove" ELSE "change")

SurfaceNext ==
    \/ Construct
    \/ SetReadOnly
    \/ SetPlaceholder
    \/ DocumentTransact

(***************************************************************************)
(* ve.ui.Surface: padding and scroll-into-view of one controller           *)
(***************************************************************************)
Sides == { "top", "right", "bottom", "left" }
PadValues == { 0, 5, 10 }
\* Arguments of setPadding: any subset of the sides, each with a value
PaddingArgs == UNION { [S -> PadValues] : S \in SUBSET Sides }
\* Paddings reported by a resize: one side, absent or present
ResizeValues == { 0, 10 }
ResizeArgs == UNION { [{s} -> ResizeValues] : s \in Sides }

\* Geometry the browser reports to one scrollSelectionIntoView call
NoRect == [ok |-> FALSE, top |-> 0, left |-> 0, height |-> 0]
FocusRects ==
    { NoRect } \cup { [ok |-> TRUE, top |-> 0, left |-> 0, height |-> h] : h \in { 10, 40 } }
SurfaceRects ==
    { NoRect } \cup { [ok |-> TRUE, top |-> y, left |-> 0, height |-> 100] : y \in { 0, 50 } }
WindowHeights == { 30 }
ScrollPositions == { 0, 100 }
Profiles ==
    { [name |-> "android", versionNumber |-> 6],
      [name |-> "android", versionNumber |-> 5],
      [name |-> "firefox", versionNumber |-> 100],
      [name |-> "chrome", versionNumber |-> 100] }
DefaultProfile == [name |-> "chrome", versionNumber |-> 100]
\* scrollConfig.animate of a scrollSelectionIntoView call: not given, or a
\* boolean
AnimateOptions == { "unset", "true", "false" }
\* Inputs that the code does not read are held at one value: the profile
\* and the collapsed flag matter to a native, expanded selection only, and
\* nothing but the rectangles matters when one of them is unresolved; a
\* scrollConfig is given for collapsed selections
Envs ==
    { e \in [ native : BOOLEAN, collapsed : BOOLEAN, focusRect : FocusRects,
              surfaceRect : SurfaceRects, windowHeight : WindowHeights,
              profile : Profiles, scrollTo : ScrollPositions,
              animate : AnimateOptions ] :
        /\ (~e.native \/ e.collapsed) => e.profile = DefaultProfile
        /\ ~e.native => e.collapsed
        /\ (~e.focusRect.ok \/ ~e.surfaceRect.ok) =>
               e.native /\ e.collapsed /\ e.scrollTo = 0 /\ e.animate = "unset"
        /\ e.animate # "unset" => e.profile = DefaultProfile /\ e.collapsed }

\* the scrollConfig argument of a call, as far as it sets `animate`
scrollConfigOf(env) ==
    IF env.animate = "unset"
    THEN [k \in {} |-> TRUE]
    ELSE [k \in { "animate" } |-> env.animate = "true"]

Max(a, b) == IF a > b THEN a ELSE b

GeometryState ==
    [ padding |-> padding, toolbarHeight |-> toolbarHeight,
      isMobile |-> isMobile, scrollTop |-> scrollTop,
      pendingScrolls |-> pendingScrolls,
      emitted |-> <<>>, scrolls |-> <<>>, calls |-> <<>>, thrown |-> FALSE ]

GeometryInit ==
    /\ padding = [s \in Sides |-> 0]
    /\ toolbarHeight = 0
    /\ isMobile \in BOOLEAN
    /\ scrollTop = 0
    /\ pendingScrolls = <<>>
    /\ geoEmitted = <<>>
    /\ geoCall = [op |-> "constructor", pad |-> <<>>, native |-> FALSE,
                  rectHeight |-> 0, viewportHeight |-> 0,
                  animate |-> "unset", scrolls |-> <<>>,
                  calls |-> <<>>, thrown |-> FALSE]

\* ve.extendObject( target, obj ): the properties of obj are copied onto
\* target, properties obj omits are left unchanged
ExtendObject(target, obj) ==
    [k \in DOMAIN target \cup DOMAIN obj |->
        IF k \in DOMAIN obj THEN obj[k] ELSE target[k]]
\* Variant of setPadding that replaces this.padding by its argument
setPadding_replace(st, pad) ==
    LET s1 == [st EXCEPT !.padding =
                   [k \in Sides |-> IF k \in DOMAIN pad THEN pad[k] ELSE 0]]
    IN  [s1 EXCEPT !.toolbarHeight = s1.padding.top]

setPadding(st, pad) ==
    LET s1 == [st EXCEPT !.padding = ExtendObject(@, pad)]
    IN  [s1 EXCEPT !.toolbarHeight = s1.padding.top]

setToolbarHeight(st, h) == setPadding(st, [s \in {"top"} |-> h])

\* getViewportDimensions() with getBoundingClientRect() = rect and the
\* window height winH; NoRect stands for null
getViewportDimensions(st, rect, winH) ==
    IF ~rect.ok
    THEN NoRect
    ELSE LET top == Max(st.padding.top - rect.top, 0)
             bottom == winH - rect.top
         IN  [ok |-> TRUE, top |-> top, left |-> rect.left,
              bottom |-> bottom, height |-> bottom - top]

\* ve.translateRect( rect, x, y )
translateRect(rect, x, y) ==
    [rect EXCEPT !.left = @ + x, !.top = @ + y]

\* ve.scrollIntoView( rect, config ): an instant scroll moves the container
\* at once, an animated one when the animation ends; either way the promise
\* resolves later
scrollIntoView(st, rect, animate, pad, native, to) ==
    [st EXCEPT !.scrolls = Append(@, [animate |-> animate, padding |-> pad]),
               !.scrollTop = IF animate THEN @ ELSE to,
               !.pendingScrolls = Append(@, [native |-> native, animate |-> animate])]
\* Variant of scrollSelectionIntoView without the viewport-height check
scrollSelectionIntoView_noHeightCheck(st, env) ==
    IF ~env.focusRect.ok \/ ~env.surfaceRect.ok
    THEN st
    ELSE
    LET clientRect == translateRect(env.focusRect, env.surfaceRect.left,
                                    env.surfaceRect.top)
        p0 == st.padding
        withContext ==
            st.isMobile /\ ~env.collapsed
        p1 == IF env.native /\ withContext
                 /\ env.profile.name = "android" /\ env.profile.versionNumber >= 6
              THEN [p0 EXCEPT !.top = @ + 60] ELSE p0
        p2 == IF env.native /\ withContext
                 /\ env.profile.name \in { "android", "firefox" }
              THEN [p1 EXCEPT !.bottom = @ + 30] ELSE p1
        p3 == [s \in Sides |-> p2[s] + 5]
        config == ExtendObject([animate |-> ~env.native, padding |-> p3],
                               scrollConfigOf(env))
    IN  scrollIntoView(st, clientRect, config.animate, config.padding,
                       env.native, env.scrollTo)

\* Variant of scrollSelectionIntoView without the check of the two
\* rectangles: translating a null rectangle throws
scrollSelectionIntoView_noRectCheck(st, env) ==
    IF ~env.focusRect.ok \/ ~env.surfaceRect.ok
    THEN [st EXCEPT !.thrown = TRUE]
    ELSE
    LET clientRect == translateRect(env.focusRect, env.surfaceRect.left,
                                    env.surfaceRect.top)
        p0 == st.padding
        withContext ==
            st.isMobile /\ ~env.collapsed
        p1 == IF env.native /\ withContext
                 /\ env.profile.name = "android" /\ env.profile.versionNumber >= 6
              THEN [p0 EXCEPT !.top = @ + 60] ELSE p0
        p2 == IF env.native /\ withContext
                 /\ env.profile.name \in { "android", "firefox" }
              THEN [p1 EXCEPT !.bottom = @ + 30] ELSE p1
        viewportDimensions ==
            getViewportDimensions(st, env.surfaceRect, env.windowHeight)
        p3 == [s \in Sides |-> p2[s] + 5]
        config == ExtendObject([animate |-> ~env.native, padding |-> p3],
                               scrollConfigOf(env))
    IN  IF ~env.native /\ clientRect.height > viewportDimensions.height
        THEN st
        ELSE scrollIntoView(st, clientRect, config.animate, config.padding,
                            env.native, env.scrollTo)

\* Variant of scrollSelectionIntoView that notifies for every selection,
\* native or not
scrollSelectionIntoView_alwaysNative(st, env) ==
    IF ~env.focusRect.ok \/ ~env.surfaceRect.ok
    THEN st
    ELSE
    LET clientRect == translateRect(env.focusRect, env.surfaceRect.left,
                                    env.surfaceRect.top)
        p0 == st.padding
        withContext ==
            st.isMobile /\ ~env.collapsed
        p1 == IF env.native /\ withContext
                 /\ env.profile.name = "android" /\ env.profile.versionNumber >= 6
              THEN [p0 EXCEPT !.top = @ + 60] ELSE p0
        p2 == IF env.native /\ withContext
                 /\ env.profile.name \in { "android", "firefox" }
              THEN [p1 EXCEPT !.bottom = @ + 30] ELSE p1
        viewportDimensions ==
            getViewportDimensions(st, env.surfaceRect, env.windowHeight)
        p3 == [s \in Sides |-> p2[s] + 5]
        config == ExtendObject([animate |-> ~env.native, padding |-> p3],
                               scrollConfigOf(env))
    IN  IF ~env.native /\ clientRect.height > viewportDimensions.height
        THEN st
        ELSE scrollIntoView(st, clientRect, config.animate, config.padding,
                            TRUE, env.scrollTo)

scrollSelectionIntoView(st, env) ==
    IF ~env.focusRect.ok \/ ~env.surfaceRect.ok
    THEN st
    ELSE
    LET clientRect == translateRect(env.focusRect, env.surfaceRect.left,
                                    env.surfaceRect.top)
        p0 == st.padding
        withContext ==
            st.isMobile /\ ~env.collapsed
        p1 == IF env.native /\ withContext
                 /\ env.profile.name = "android" /\ env.profile.versionNumber >= 6
              THEN [p0 EXCEPT !.top = @ + 60] ELSE p0
        p2 == IF env.native /\ withContext
                 /\ env.profile.name \in { "android", "firefox" }
              THEN [p1 EXCEPT !.bottom = @ + 30] ELSE p1
        viewportDimensions ==
            getViewportDimensions(st, env.surfaceRect, env.windowHeight)
        p3 == [s \in Sides |-> p2[s] + 5]
        config == ExtendObject([animate |-> ~env.native, padding |-> p3],
                               scrollConfigOf(env))
    IN  IF ~env.native /\ clientRect.height > viewportDimensions.height
        THEN st
        ELSE scrollIntoView(st, clientRect, config.animate, config.padding,
                            env.native, env.scrollTo)

\* The promise of the i-th unresolved ve.scrollIntoView call resolves: an
\* animated scroll has moved the container to `to`, and the continuation
\* emits 'scroll' for a native selection
scrollDone(st, i, to) ==
    LET req == st.pendingScrolls[i]
        s1 == [st EXCEPT !.pendingScrolls =
                   SubSeq(@, 1, i - 1) \o SubSeq(@, i + 1, Len(@)),
                         !.scrollTop = IF req.animate THEN to ELSE @]
    IN  IF req.native
        THEN [s1 EXCEPT !.emitted = Append(@, "scroll")]
        ELSE s1

(***************************************************************************)
(* The handlers that change the padding.  Each logs, in st.calls, the      *)
(* methods it calls and the styles it sets.                                *)
(***************************************************************************)
called(st, op, value) ==
    [st EXCEPT !.calls = Append(@, [op |-> op, value |-> value])]

\* config.inTargetWidget of the surfaces modelled: the default
inTargetWidget == FALSE

\* A call of scrollSelectionIntoView with no argument, on a collapsed
\* selection
FlowEnvs ==
    { e \in Envs : e.animate = "unset" /\ e.collapsed /\ e.scrollTo = 0 }

adjustVisiblePadding(st, env, isIos) ==
    LET s0 == called(st, "adjustVisiblePadding", 0) IN
    IF s0.isMobile /\ ~inTargetWidget
    THEN LET keyboardShown == env.native
             bottom == IF isIos /\ keyboardShown
                       THEN env.windowHeight - s0.padding.top
                       ELSE s0.padding.bottom
             s1 == called(s0, "css padding-bottom", bottom)
         IN  scrollSelectionIntoView(
                 called(s1, "scrollSelectionIntoView", 0), env)
    ELSE s0

\* `hasPadding` is whether getSurfacePadding() returned an object
onContextResize(st, hasPadding, pad, env, isIos) ==
    IF hasPadding
    THEN LET s1 == setPadding(called(st, "setPadding", 0), pad)
             s2 == adjustVisiblePadding(s1, env, isIos)
         IN  scrollSelectionIntoView(
                 called(s2, "scrollSelectionIntoView", 0), env)
    ELSE st

\* `shown` is this.placeholderVisible
onViewPosition(st, hasPadding, pad, env, isIos, shown) ==
    LET s3 == IF hasPadding
              THEN LET s1 == setPadding(called(st, "setPadding", 0), pad)
                       s2 == adjustVisiblePadding(s1, env, isIos)
                   IN  scrollSelectionIntoView(
                           called(s2, "scrollSelectionIntoView", 0), env)
              ELSE st
    IN  IF shown THEN called(s3, "css min-height", 0) ELSE s3

\* The Target's handler of the toolbar's 'resize': `height` is
\* toolbar.getHeight() + toolbarScrollOffset
onToolbarResize(st, height) ==
    setToolbarHeight(called(st, "setToolbarHeight", height), height)

(***************************************************************************)
(* Steps of the geometry machine                                           *)
(***************************************************************************)
GeometryStep(st, call) ==
    /\ padding' = st.padding
    /\ toolbarHeight' = st.toolbarHeight
    /\ isMobile' = st.isMobile
    /\ scrollTop' = st.scrollTop
    /\ pendingScrolls' = st.pendingScrolls
    /\ geoEmitted' = st.emitted
    /\ geoCall' = [call EXCEPT !.scrolls = st.scrolls, !.calls = st.calls,
                                 !.thrown = st.thrown]
    /\ UNCHANGED <<targetAll, surfaceAll, commandAll, lifecycleAll,
                 modeAll, keyAll, floatAll, progressAll, laterAll>>

GeoCall(op) ==
    [op |-> op, pad |-> <<>>, native |-> FALSE, rectHeight |-> 0,
     viewportHeight |-> 0, animate |-> "unset", scrolls |-> <<>>,
     calls |-> <<>>, thrown |-> FALSE]

SetPadding ==
    \E pad \in PaddingArgs :
        GeometryStep(setPadding(GeometryState, pad),
                     [GeoCall("setPadding") EXCEPT !.pad = pad])

\* setPadding as the resize handlers call it: with the one side that the
\* context or the toolbar dialog occupies
ResizePadding ==
    \E pad \in ResizeArgs :
        GeometryStep(setPadding(GeometryState, pad),
                     [GeoCall("setPadding") EXCEPT !.pad = pad])

SetToolbarHeight ==
    \E h \in ResizeValues :
        GeometryStep(setToolbarHeight(GeometryState, h),
                     [GeoCall("setToolbarHeight") EXCEPT !.pad = [s \in {"top"} |-> h]])

ScrollSelectionIntoView ==
    /\ Len(pendingScrolls) < MaxPending
    /\ \E env \in Envs :
          GeometryStep(scrollSelectionIntoView(GeometryState, env),
              [GeoCall("scrollSelectionIntoView") EXCEPT
                  !.native = env.native,
                  !.animate = env.animate,
                  !.rectHeight = IF env.focusRect.ok /\ env.surfaceRect.ok
                                 THEN env.focusRect.height ELSE -1,
                  !.viewportHeight =
                      getViewportDimensions(GeometryState, env.surfaceRect,
                                            env.windowHeight).height])

ScrollDone ==
    \E i \in 1..Len(pendingScrolls), to \in ScrollPositions :
        GeometryStep(scrollDone(GeometryState, i, to), GeoCall("scrollDone"))

\* Inputs of a padding handler; those the handler does not read are held
\* at one value
FlowInputs ==
    { i \in [hasPadding : BOOLEAN, pad : ResizeArgs, env : FlowEnvs,
              isIos : BOOLEAN] :
        /\ ~i.hasPadding =>
               /\ i.pad = [s \in {"top"} |-> 0]
               /\ i.env = [native |-> TRUE, collapsed |-> TRUE,
                           focusRect |-> NoRect, surfaceRect |-> NoRect,
                           windowHeight |-> 30, profile |-> DefaultProfile,
                           scrollTo |-> 0, animate |-> "unset"]
        /\ (~i.hasPadding \/ ~isMobile \/ ~i.env.native) => ~i.isIos }

OnContextResize ==
    /\ pendingScrolls = <<>>
    /\ \E i \in FlowInputs :
          GeometryStep(onContextResize(GeometryState, i.hasPadding, i.pad,
                                       i.env, i.isIos),
              [GeoCall("onContextResize") EXCEPT !.native = i.env.native])

OnViewPosition ==
    /\ pendingScrolls = <<>>
    /\ \E i \in FlowInputs, shown \in BOOLEAN :
          GeometryStep(onViewPosition(GeometryState, i.hasPadding, i.pad,
                                      i.env, i.isIos, shown),
              [GeoCall("onViewPosition") EXCEPT !.native = i.env.native])

OnToolbarResize ==
    \E h \in ResizeValues :
        GeometryStep(onToolbarResize(GeometryState, h),
                     GeoCall("onToolbarResize"))

PaddingFlowNext ==
    \/ OnContextResize
    \/ OnViewPosition
    \/ OnToolbarResize
    \/ ScrollDone

GeometryNext ==
    \/ ResizePadding
    \/ SetToolbarHeight
    \/ ScrollSelectionIntoView
    \/ ScrollDone

PaddingNext ==
    \/ SetPadding
    \/ SetToolbarHeight

(***************************************************************************)
(* ve.ui.Surface: command dispatch (executeWithSource)                     *)
(***************************************************************************)
CommandNames == { "bold", "italic" }

\* Key chords as they are written, the key last
Chords ==
    { << "ctrl", "b" >>, << "ctrl", "shift", "b" >>, << "shift", "ctrl", "b" >>,
      << "ctrl", "i" >> }

\* the order in which a trigger string lists its modifiers
ModifierOrder == << "ctrl", "shift" >>

\* ve.ui.Trigger#toString: the normalized form of a chord, independent of
\* the order in which the modifiers were written; the parts of the string
\* are kept as a sequence
TriggerToString(chord) ==
    LET key == chord[Len(chord)]
        held == { chord[i] : i \in 1..(Len(chord) - 1) }
    IN  SelectSeq(ModifierOrder, LAMBDA m : m \in held) \o << key >>

TriggerStrings == { TriggerToString(c) : c \in Chords }

\* a name the registry does not know, and a command registered without a
\* trigger
Unregistered == << "unregistered" >>
NoTrigger == << >>

\* ve.ui.actionFactory: the methods each action supports
ActionNames == { "annotation", "bogus" }
MethodNames == { "set", "insert" }
doesActionSupportMethod(action, method) ==
    action = "annotation" /\ method = "set"

\* what Command#execute may return
CommandReturns == { "true", "false", "promise" }
\* what an action method may return
MethodReturns == { "undefined", "true", "false", "null", "object" }
\* JavaScript truthiness of a returned value
TruthyValue(r) == r \in { "true", "object", "promise" }

Sourcetags == { "undefined", "keyboard" }

\* the first argument of executeWithSource
TriggerArgs == { [kind |-> "trigger", chord |-> c, name |-> ""] : c \in Chords }
StringArgs == { [kind |-> "string", chord |-> << >>, name |-> a] : a \in ActionNames }
OtherArgs == { [kind |-> "other", chord |-> << >>, name |-> ""] }
\* the second argument: a method name, or not a string
MethodArgs == MethodNames \cup { "undefined" }

\* the record of a step that is not an executeWithSource call
NoCall(op) ==
    [op |-> op, arg |-> CHOOSE a \in OtherArgs : TRUE, method |-> "undefined",
     source |-> "undefined", ret |-> "undefined",
     include |-> { "default" }, exclude |-> {}]

CommandState ==
    [ registry |-> registry, dispatcher |-> dispatcher, commands |-> commands,
      commandsByTrigger |-> commandsByTrigger,
      result |-> "none", invoked |-> << >>, thrown |-> FALSE ]

CommandInit ==
    /\ registry = [n \in CommandNames |-> Unregistered]
    /\ dispatcher = FALSE
    /\ commands = {}
    /\ commandsByTrigger = [t \in TriggerStrings |-> ""]
    /\ registryAtBuild = [n \in CommandNames |-> Unregistered]
    /\ cmdCall = NoCall("none")
    /\ cmdResult = "none"
    /\ cmdInvoked = << >>
    /\ cmdThrown = FALSE

\* commandRegistry.getNames()
getNames(st) == { n \in CommandNames : st.registry[n] # Unregistered }

\* the commands of the list bound to trigger string t in the registry
BoundTo(st, list, t) == { n \in list : st.registry[n] = t }

\* The indexes a new ve.TriggerListener( commands, commandRegistry ) may
\* hold: each trigger string leads to a command of the list registered with
\* it; when several are, to one of them
TriggerListeners(st, list) ==
    { idx \in [TriggerStrings -> CommandNames \cup { "" }] :
        \A t \in TriggerStrings :
            IF BoundTo(st, list, t) = {}
            THEN idx[t] = ""
            ELSE idx[t] \in BoundTo(st, list, t) }

\* Variant of the constructor that ignores config.excludeCommands
VeUiSurfaceCommands_noExclude(st, include, exclude, idx) ==
    [st EXCEPT !.dispatcher = TRUE,
               !.commands = IF include = { "default" } THEN getNames(st)
                            ELSE include,
               !.commandsByTrigger = idx]

\* the part of the constructor that sets up the dispatch: this.commands and
\* this.triggerListener
VeUiSurfaceCommands(st, include, exclude, idx) ==
    [st EXCEPT !.dispatcher = TRUE,
               !.commands = (IF include = { "default" } THEN getNames(st)
                             ELSE include) \ exclude,
               !.commandsByTrigger = idx]

\* this.triggerListener.getCommandByTrigger( string )
getCommandByTrigger(st, str) ==
    IF str \in TriggerStrings THEN st.commandsByTrigger[str] ELSE ""

\* Variant of executeWithSource that looks the trigger up as it was
\* written, without toString()
executeWithSource_rawTrigger(st, a, method, source, ret) ==
    IF a.kind = "trigger"
    THEN LET command == getCommandByTrigger(st, a.chord)
         IN  IF command # ""
             THEN [st EXCEPT !.invoked = Append(@,
                        [callee |-> "command", name |-> command,
                         method |-> "execute",
                         args |-> << "this", "false", source >>]),
                      !.result = ret]
             ELSE [st EXCEPT !.result = "false"]
    ELSE IF a.kind = "string" /\ method \in MethodNames
    THEN IF doesActionSupportMethod(a.name, method)
         THEN [st EXCEPT !.invoked = Append(@,
                    [callee |-> "action", name |-> a.name, method |-> method,
                     args |-> << "this", source >>]),
                  !.result = IF ret = "undefined" \/ TruthyValue(ret)
                             THEN "true" ELSE "false"]
         ELSE [st EXCEPT !.result = "false"]
    ELSE [st EXCEPT !.result = "false"]

\* Variant of executeWithSource that reports a found command as executed
\* whatever its execute returned
executeWithSource_found(st, a, method, source, ret) ==
    IF a.kind = "trigger"
    THEN LET command == getCommandByTrigger(st, TriggerToString(a.chord))
         IN  IF command # ""
             THEN [st EXCEPT !.invoked = Append(@,
                        [callee |-> "command", name |-> command,
                         method |-> "execute",
                         args |-> << "this", "false", source >>]),
                      !.result = "true"]
             ELSE [st EXCEPT !.result = "false"]
    ELSE IF a.kind = "string" /\ method \in MethodNames
    THEN IF doesActionSupportMethod(a.name, method)
         THEN [st EXCEPT !.invoked = Append(@,
                    [callee |-> "action", name |-> a.name, method |-> method,
                     args |-> << "this", source >>]),
                  !.result = IF ret = "undefined" \/ TruthyValue(ret)
                             THEN "true" ELSE "false"]
         ELSE [st EXCEPT !.result = "false"]
    ELSE [st EXCEPT !.result = "false"]

\* Variant of executeWithSource that does not validate the method: an
\* unsupported method is undefined on the action object and applying it
\* throws
executeWithSource_noValidate(st, a, method, source, ret) ==
    IF a.kind = "trigger"
    THEN LET command == getCommandByTrigger(st, TriggerToString(a.chord))
         IN  IF command # ""
             THEN [st EXCEPT !.invoked = Append(@,
                        [callee |-> "command", name |-> command,
                         method |-> "execute",
                         args |-> << "this", "false", source >>]),
                      !.result = ret]
             ELSE [st EXCEPT !.result = "false"]
    ELSE IF a.kind = "string" /\ method \in MethodNames
    THEN IF doesActionSupportMethod(a.name, method)
         THEN [st EXCEPT !.invoked = Append(@,
                    [callee |-> "action", name |-> a.name, method |-> method,
                     args |-> << "this", source >>]),
                  !.result = IF ret = "undefined" \/ TruthyValue(ret)
                             THEN "true" ELSE "false"]
         ELSE [st EXCEPT !.result = "none", !.thrown = TRUE]
    ELSE [st EXCEPT !.result = "false"]

\* Variant of executeWithSource that coerces the method's result with !!
\* alone
executeWithSource_coerce(st, a, method, source, ret) ==
    IF a.kind = "trigger"
    THEN LET command == getCommandByTrigger(st, TriggerToString(a.chord))
         IN  IF command # ""
             THEN [st EXCEPT !.invoked = Append(@,
                        [callee |-> "command", name |-> command,
                         method |-> "execute",
                         args |-> << "this", "false", source >>]),
                      !.result = ret]
             ELSE [st EXCEPT !.result = "false"]
    ELSE IF a.kind = "string" /\ method \in MethodNames
    THEN IF doesActionSupportMethod(a.name, method)
         THEN [st EXCEPT !.invoked = Append(@,
                    [callee |-> "action", name |-> a.name, method |-> method,
                     args |-> << "this", source >>]),
                  !.result = IF TruthyValue(ret) THEN "true" ELSE "false"]
         ELSE [st EXCEPT !.result = "false"]
    ELSE [st EXCEPT !.result = "false"]

\* executeWithSource( triggerOrAction, method, source ); ret is what the
\* command's execute, or the action's method, returns if it is invoked
executeWithSource(st, a, method, source, ret) ==
    IF a.kind = "trigger"
    THEN LET command == getCommandByTrigger(st, TriggerToString(a.chord))
         IN  IF command # ""
             THEN [st EXCEPT !.invoked = Append(@,
                        [callee |-> "command", name |-> command,
                         method |-> "execute",
                         args |-> << "this", "false", source >>]),
                      !.result = ret]
             ELSE [st EXCEPT !.result = "false"]
    ELSE IF a.kind = "string" /\ method \in MethodNames
    THEN IF doesActionSupportMethod(a.name, method)
         THEN [st EXCEPT !.invoked = Append(@,
                    [callee |-> "action", name |-> a.name, method |-> method,
                     args |-> << "this", source >>]),
                  !.result = IF ret = "undefined" \/ TruthyValue(ret)
                             THEN "true" ELSE "false"]
         ELSE [st EXCEPT !.result = "false"]
    ELSE [st EXCEPT !.result = "false"]

\* execute( triggerOrAction, method ): executeWithSource with false as the
\* source
execute(st, a, method, ret) == executeWithSource(st, a, method, "false", ret)

\* executeCommand( commandName ): the command is looked up in the registry;
\* ret is what its execute returns if it is invoked
executeCommand(st, commandName, ret) ==
    IF commandName \in CommandNames /\ st.registry[commandName] # Unregistered
    THEN [st EXCEPT !.invoked = Append(@,
               [callee |-> "command", name |-> commandName,
                method |-> "execute", args |-> << "this" >>]),
             !.result = ret]
    ELSE [st EXCEPT !.result = "false"]

(***************************************************************************)
(* Steps of the dispatch machine                                           *)
(***************************************************************************)
CommandStep(st, call) ==
    /\ registry' = st.registry
    /\ dispatcher' = st.dispatcher
    /\ commands' = st.commands
    /\ commandsByTrigger' = st.commandsByTrigger
    /\ cmdResult' = st.result
    /\ cmdInvoked' = st.invoked
    /\ cmdThrown' = st.thrown
    /\ cmdCall' = call
    /\ UNCHANGED <<targetAll, surfaceAll, geometryAll, lifecycleAll,
                 modeAll, keyAll, floatAll, progressAll, laterAll>>

\* a command is registered, with a trigger or without
RegisterCommand ==
    \E n \in CommandNames, t \in { TriggerToString(c) : c \in Chords } \cup { NoTrigger } :
        /\ registry[n] = Unregistered
        /\ CommandStep([CommandState EXCEPT !.registry[n] = t],
                       NoCall("register"))
        /\ UNCHANGED registryAtBuild

ConstructDispatcher ==
    /\ ~dispatcher
    /\ \E include \in { { "default" } } \cup SUBSET CommandNames,
          exclude \in SUBSET CommandNames :
          LET list == (IF include = { "default" } THEN getNames(CommandState)
                       ELSE include) \ exclude
          IN  \E idx \in TriggerListeners(CommandState, list) :
                 CommandStep(VeUiSurfaceCommands(CommandState, include, exclude, idx),
                             [NoCall("constructor") EXCEPT
                                 !.include = include, !.exclude = exclude])
    /\ registryAtBuild' = registry

ExecuteWithSource ==
    /\ dispatcher
    /\ \E a \in TriggerArgs \cup StringArgs \cup OtherArgs, method \in MethodArgs,
          source \in Sourcetags, ret \in CommandReturns \cup MethodReturns :
          /\ a.kind = "trigger" => ret \in CommandReturns /\ method = "undefined"
          /\ a.kind = "string" =>
                 ret \in (IF method \in MethodNames
                             /\ doesActionSupportMethod(a.name, method)
                          THEN MethodReturns ELSE { "undefined" })
          /\ a.kind = "other" => ret = "undefined"
          /\ CommandStep(executeWithSource(CommandState, a, method, source, ret),
                         [NoCall("executeWithSource") EXCEPT
                             !.arg = a, !.method = method,
                             !.source = source, !.ret = ret])
    /\ UNCHANGED registryAtBuild

CommandNext ==
    \/ RegisterCommand
    \/ ConstructDispatcher
    \/ ExecuteWithSource

\* the argument of executeCommand: the name of a command, registered or not
NameArgs ==
    { [kind |-> "name", chord |-> << >>, name |-> n] :
        n \in CommandNames \cup { "unknown" } }

Execute ==
    /\ dispatcher
    /\ \E a \in TriggerArgs \cup StringArgs \cup OtherArgs, method \in MethodArgs,
          ret \in CommandReturns \cup MethodReturns :
          /\ a.kind = "trigger" => ret \in CommandReturns /\ method = "undefined"
          /\ a.kind = "string" =>
                 ret \in (IF method \in MethodNames
                             /\ doesActionSupportMethod(a.name, method)
                          THEN MethodReturns ELSE { "undefined" })
          /\ a.kind = "other" => ret = "undefined"
          /\ CommandStep(execute(CommandState, a, method, ret),
                         [NoCall("execute") EXCEPT
                             !.arg = a, !.method = method,
                             !.source = "false", !.ret = ret])
    /\ UNCHANGED registryAtBuild

ExecuteCommand ==
    /\ dispatcher
    /\ \E a \in NameArgs, ret \in CommandReturns :
          CommandStep(executeCommand(CommandState, a.name, ret),
                      [NoCall("executeCommand") EXCEPT !.arg = a, !.ret = ret])
    /\ UNCHANGED registryAtBuild

DispatchNext ==
    \/ CommandNext
    \/ Execute
    \/ ExecuteCommand

(***************************************************************************)
(* ve.ui.Surface: life cycle (constructor bindings, initialize, destroy)   *)
(***************************************************************************)
ModelEvents == { "select", "blur", "focus" }

\* the handler the constructor connects to an event
HandlerOf(event) ==
    CASE event = "select" -> "onModelSelect"
      [] event = "blur" -> "onModelBlur"
      [] event = "focus" -> "onModelFocus"
      [] event = "transact" -> "onDocumentTransact"
      [] event = "position" -> "onViewPosition"
      [] event = "activation" -> "onViewActivation"
      [] event = "resize" -> "onContextResize"

Binding(emitter, id, event, c) ==
    [emitter |-> emitter, id |-> id, event |-> event, ctl |-> c]

LifecycleState ==
    [ life |-> life, lcModel |-> lcModel, lcDocument |-> lcDocument,
      bindings |-> bindings, debugBar |-> debugBar,
      destroyCalls |-> destroyCalls, destroyEmits |-> destroyEmits,
      trace |-> << >>, thrown |-> FALSE, invoked |-> {} ]

LifecycleInit ==
    /\ life = [c \in Ctl |-> "none"]
    /\ lcModel = [c \in Ctl |-> Null]
    /\ lcDocument = [m \in Models |-> Null]
    /\ bindings = {}
    /\ debugBar = [c \in Ctl |-> FALSE]
    /\ destroyCalls = [c \in Ctl |-> 0]
    /\ destroyEmits = [c \in Ctl |-> 0]
    /\ destroyTrace = << >>
    /\ lcThrown = FALSE
    /\ lcInvoked = {}
    /\ lcCall = [op |-> "none", ctl |-> Null, arg |-> ""]

\* emitter.connect( this, { event: handler, ... } )
connect(st, emitter, id, events, c) ==
    [st EXCEPT !.bindings = @ \cup { Binding(emitter, id, ev, c) : ev \in events }]

\* emitter.disconnect( this ): every binding of the emitter to controller c
disconnect(st, emitter, c) ==
    [st EXCEPT !.bindings = { b \in @ : ~(b.emitter = emitter /\ b.ctl = c) }]

\* one statement of destroy(), recorded in order
did(st, what) == [st EXCEPT !.trace = Append(@, what)]

\* What the life-cycle constructor is given: raw data (a new document and a
\* new surface model), a document, or a surface model
LifecycleSources(st) ==
    { [kind |-> "data", id |-> Null] }
    \cup { [kind |-> "document", id |-> st.lcDocument[st.lcModel[b]]] :
             b \in { c \in Ctl : st.life[c] # "none" } }
    \cup { [kind |-> "surface", id |-> st.lcModel[b]] :
             b \in { c \in Ctl : st.life[c] # "none" } }

\* the model, debug bar and event bindings of the constructor
VeUiSurfaceEvents(st, c, src) ==
    LET s1 == IF src.kind = "surface"
              THEN [st EXCEPT !.lcModel[c] = src.id]
              ELSE IF src.kind = "document"
              THEN [st EXCEPT !.lcModel[c] = c, !.lcDocument[c] = src.id]
              ELSE [st EXCEPT !.lcModel[c] = c, !.lcDocument[c] = c]
        s2 == [s1 EXCEPT !.debugBar[c] = FALSE]
        s3 == connect(s2, "model", s2.lcModel[c], ModelEvents, c)
        s4 == connect(s3, "document", s3.lcDocument[s3.lcModel[c]], { "transact" }, c)
        s5 == connect(s4, "view", c, { "position", "activation" }, c)
        s6 == connect(s5, "context", c, { "resize" }, c)
    IN  [s6 EXCEPT !.life[c] = "alive"]

\* initialize(): with ve.debug the debug bar is set up
initialize(st, c, debug) ==
    IF debug THEN [st EXCEPT !.debugBar[c] = TRUE] ELSE st

\* Variant of destroy that notifies before it tears anything down
uiSurfaceDestroy_emitFirst(st, c, partThrows) ==
    IF partThrows
    THEN [did(st, "context.destroy") EXCEPT !.thrown = TRUE]
    ELSE LET s0 == [did(st, "emit destroy") EXCEPT !.destroyEmits[c] = @ + 1]
             s1 == did(s0, "context.destroy")
             s2 == did(s1, "dialogs.destroy")
             s3 == did(s2, "toolbarDialogs.destroy")
             s4 == did(s3, "view.destroy")
             s5 == IF s4.debugBar[c] THEN did(s4, "debugBar.destroy") ELSE s4
             s6 == did(disconnect(s5, "dialogs", c), "dialogs.disconnect")
             s7 == did(disconnect(s6, "inspectors", c), "inspectors.disconnect")
             s8 == did(s7, "$element.remove")
             s9 == did(s8, "globalOverlay.remove")
         IN  [s9 EXCEPT !.life[c] = "destroyed"]

\* destroy() of controller c.  On a controller that was destroyed before,
\* the destroy() of an already destroyed part either throws (partThrows) or
\* does nothing more
uiSurfaceDestroy(st, c, partThrows) ==
    IF partThrows
    THEN [did(st, "context.destroy") EXCEPT !.thrown = TRUE]
    ELSE LET s1 == did(st, "context.destroy")
             s2 == did(s1, "dialogs.destroy")
             s3 == did(s2, "toolbarDialogs.destroy")
             s4 == did(s3, "view.destroy")
             s5 == IF s4.debugBar[c] THEN did(s4, "debugBar.destroy") ELSE s4
             s6 == did(disconnect(s5, "dialogs", c), "dialogs.disconnect")
             s7 == did(disconnect(s6, "inspectors", c), "inspectors.disconnect")
             s8 == did(s7, "$element.remove")
             s9 == did(s8, "globalOverlay.remove")
             s10 == [did(s9, "emit destroy") EXCEPT !.destroyEmits[c] = @ + 1]
         IN  [s10 EXCEPT !.life[c] = "destroyed"]

\* emitter id emits event: every handler connected to it is invoked
dispatch(st, emitter, id, event) ==
    [st EXCEPT !.invoked =
        { [ctl |-> b.ctl, handler |-> HandlerOf(b.event)] :
            b \in { x \in st.bindings :
                      x.emitter = emitter /\ x.id = id /\ x.event = event } }]

(***************************************************************************)
(* Steps of the life-cycle machine                                         *)
(***************************************************************************)
LifecycleStep(st, op, c, arg) ==
    /\ life' = st.life
    /\ lcModel' = st.lcModel
    /\ lcDocument' = st.lcDocument
    /\ bindings' = st.bindings
    /\ debugBar' = st.debugBar
    /\ destroyCalls' = st.destroyCalls
    /\ destroyEmits' = st.destroyEmits
    /\ destroyTrace' = st.trace
    /\ lcThrown' = st.thrown
    /\ lcInvoked' = st.invoked
    /\ lcCall' = [op |-> op, ctl |-> c, arg |-> arg]
    /\ UNCHANGED <<targetAll, surfaceAll, geometryAll, commandAll,
                 modeAll, keyAll, floatAll, progressAll, laterAll>>

ConstructController ==
    \E c \in Ctl :
        /\ life[c] = "none"
        /\ \A b \in Ctl : b < c => life[b] # "none"
        /\ \E src \in LifecycleSources(LifecycleState) :
              LifecycleStep(VeUiSurfaceEvents(LifecycleState, c, src),
                            "constructor", c, src.kind)

InitializeController ==
    \E c \in Ctl, debug \in BOOLEAN :
        /\ life[c] = "alive"
        /\ LifecycleStep(initialize(LifecycleState, c, debug), "initialize", c,
                         BoolStr(debug))

DestroyController ==
    \E c \in Ctl, partThrows \in BOOLEAN :
        /\ life[c] # "none"
        /\ Cardinality({ p \in Ctl \X (1..MaxDestroyCalls) :
                            p[2] <= destroyCalls[p[1]] }) < MaxDestroyCalls
        /\ partThrows => life[c] = "destroyed"
        /\ LifecycleStep(
              uiSurfaceDestroy([LifecycleState EXCEPT !.destroyCalls[c] = @ + 1],
                               c, partThrows),
              "destroy", c, BoolStr(partThrows))

\* the surface model m emits select, blur or focus
ModelEvent ==
    \E c \in Ctl, ev \in ModelEvents :
        /\ life[c] # "none"
        /\ LifecycleStep(dispatch(LifecycleState, "model", lcModel[c], ev),
                         "modelEvent", lcModel[c], ev)

\* a transaction is committed to a document, which emits transact
DocumentEvent ==
    \E c \in Ctl :
        /\ life[c] # "none"
        /\ LifecycleStep(dispatch(LifecycleState, "document",
                                  lcDocument[lcModel[c]], "transact"),
                         "documentEvent", lcDocument[lcModel[c]], "transact")

LifecycleNext ==
    \/ ConstructController
    \/ InitializeController
    \/ DestroyController
    \/ ModelEvent
    \/ DocumentEvent

(***************************************************************************)
(* ve.init.Target: the default editing mode and the surfaces addSurface    *)
(* creates.  A value passed to a constructor is a record with the kind of  *)
(* object it is.                                                           *)
(***************************************************************************)
\* ve.init.Target.static.modes
staticModes == << "visual" >>

\* mode names a caller may pass; "undefined" is a missing argument
ModeNames == { "visual", "source", "diff" }
ModeArgs == ModeNames \cup { "undefined" }

\* config.modes: not given, or a list of at least one mode ("Must contain
\* at least one mode") without repetition
ModeLists ==
    { << "visual" >>, << "source" >>, << "visual", "source" >>,
      << "source", "visual" >> }
ConfigModes ==
    { [given |-> FALSE, list |-> << >>] }
      \cup { [given |-> TRUE, list |-> l] : l \in ModeLists }

\* the browser: isIe, isEdge
Browsers == { [isIe |-> FALSE, isEdge |-> FALSE], [isIe |-> TRUE, isEdge |-> FALSE],
              [isIe |-> FALSE, isEdge |-> TRUE] }

\* 've-init-target-' + mode
ModeClass(mode) == "ve-init-target-" \o mode

ModeState ==
    [ modes |-> modes, defaultMode |-> defaultMode, classes |-> classes,
      built |-> targetBuilt ]

\* objects handed to constructors
Undefined == [kind |-> "undefined", id |-> 0, mode |-> "undefined"]
ThisTarget == [kind |-> "ve.init.Target", id |-> 0, mode |-> "undefined"]
DmSources ==
    { [kind |-> k, id |-> 1, mode |-> "undefined"] :
          k \in { "ve.dm.Document", "ve.dm.Surface" } }
\* a configuration object, with its mode option ("undefined": no such key)
Config(mode) == [kind |-> "config", id |-> 0, mode |-> mode]
NoSurface ==
    [made |-> FALSE, thrown |-> FALSE, target |-> Undefined,
     source |-> Undefined, mode |-> "undefined"]

NoModeCall(op) ==
    [op |-> op, arg |-> "undefined", doc |-> Undefined,
     configMode |-> "undefined", returned |-> NoSurface]

ModeInit ==
    /\ modes = << >>
    /\ defaultMode = "undefined"
    /\ classes = {}
    /\ targetBuilt = FALSE
    /\ modeCall = NoModeCall("none")

isModeAvailable(st, mode) == IndexOf(st.modes, mode) # -1

getDefaultMode(st) == st.defaultMode

\* Variant of setDefaultMode that keeps the class of the previous mode
setDefaultMode_noRemove(st, mode) ==
    IF ~isModeAvailable(st, mode) /\ Truthy(st.defaultMode)
    THEN st
    ELSE LET m == IF ~isModeAvailable(st, mode) THEN st.modes[1] ELSE mode
         IN  IF m # st.defaultMode
             THEN [st EXCEPT !.classes = @ \cup { ModeClass(m) },
                             !.defaultMode = m]
             ELSE st

setDefaultMode(st, mode) ==
    IF ~isModeAvailable(st, mode) /\ Truthy(st.defaultMode)
    THEN st
    ELSE LET m == IF ~isModeAvailable(st, mode) THEN st.modes[1] ELSE mode
         IN  IF m # st.defaultMode
             THEN [st EXCEPT !.classes =
                        (IF Truthy(st.defaultMode)
                         THEN @ \ { ModeClass(st.defaultMode) }
                         ELSE @) \cup { ModeClass(m) },
                             !.defaultMode = m]
             ELSE st

\* The part of the constructor that sets the modes and the classes
VeInitTargetModes(st, configModes, configDefaultMode, browser) ==
    LET s1 == [st EXCEPT !.built = TRUE,
                         !.modes = IF configModes.given THEN configModes.list
                                   ELSE staticModes]
        s2 == setDefaultMode(s1, configDefaultMode)
    IN  [s2 EXCEPT !.classes =
            @ \cup { "ve-init-target" }
              \cup (IF browser.isIe THEN { "ve-init-target-ie" } ELSE {})
              \cup (IF browser.isIe \/ browser.isEdge
                    THEN { "ve-init-target-ie-or-edge" } ELSE {})]

\* new ve.ui.Surface( ...args ): the constructor binds its parameters
\* ( target, dataOrDocOrSurface, config ) by position.  A second argument
\* that is no surface model, document or linear data is given to
\* ve.dm.converter.getModelFromDom as an HTML document; `converterThrows`
\* is whether that call throws when the argument is none
Arg(args, i) == IF i <= Len(args) THEN args[i] ELSE Undefined

newVeUiSurface(args, converterThrows) ==
    LET target == Arg(args, 1)
        dataOrDocOrSurface == Arg(args, 2)
        config == IF Arg(args, 3) = Undefined THEN Config("undefined")
                  ELSE Arg(args, 3)
    IN  IF /\ dataOrDocOrSurface.kind \notin
                 { "ve.dm.Surface", "ve.dm.Document", "HTMLDocument" }
           /\ converterThrows
        THEN [NoSurface EXCEPT !.thrown = TRUE]
        ELSE [made |-> TRUE, thrown |-> FALSE, target |-> target,
              source |-> dataOrDocOrSurface, mode |-> config.mode]

\* ve.extendObject on configuration objects, as far as the mode goes: a
\* key of the second object replaces the one of the first
ExtendConfig(first, second) ==
    IF second.mode # "undefined" THEN Config(second.mode) ELSE Config(first.mode)

getSurfaceConfig(config) == ExtendConfig(Config("undefined"), config)

createSurface(dmDocOrSurface, config, converterThrows) ==
    newVeUiSurface(<< dmDocOrSurface, getSurfaceConfig(config) >>,
                   converterThrows)

\* the surface addSurface creates and returns
addSurfaceCreate(st, dmDocOrSurface, config, converterThrows) ==
    createSurface(dmDocOrSurface,
                  ExtendConfig(Config(getDefaultMode(st)), config),
                  converterThrows)

ModeStep(st, call) ==
    /\ modes' = st.modes
    /\ defaultMode' = st.defaultMode
    /\ classes' = st.classes
    /\ targetBuilt' = st.built
    /\ modeCall' = call
    /\ UNCHANGED <<targetAll, surfaceAll, geometryAll, commandAll,
                   lifecycleAll, keyAll, floatAll, progressAll, laterAll>>

ConstructTarget ==
    /\ ~targetBuilt
    /\ \E configModes \in ConfigModes, mode \in ModeArgs, browser \in Browsers :
          ModeStep(VeInitTargetModes(ModeState, configModes, mode, browser),
                   [NoModeCall("constructor") EXCEPT !.arg = mode])

SetDefaultMode ==
    /\ targetBuilt
    /\ \E mode \in ModeArgs :
          ModeStep(setDefaultMode(ModeState, mode),
                   [NoModeCall("setDefaultMode") EXCEPT !.arg = mode])

AddSurfaceCreate ==
    /\ targetBuilt
    /\ \E doc \in DmSources, mode \in ModeArgs, converterThrows \in BOOLEAN :
          ModeStep(ModeState,
                   [NoModeCall("addSurface") EXCEPT
                       !.doc = doc,
                       !.configMode = mode,
                       !.returned = addSurfaceCreate(ModeState, doc,
                                        Config(mode), converterThrows)])

ModeNext ==
    \/ ConstructTarget
    \/ SetDefaultMode
    \/ AddSurfaceCreate

(***************************************************************************)
(* ve.init.Target: the key-down handlers.  A key-down event is the chord   *)
(* held when the key went down; new ve.ui.Trigger( e ) is that chord.      *)
(***************************************************************************)
\* ve.init.Target.static.documentCommands and .targetCommands
documentCommands == { "commandHelp" }
targetCommands == { "findAndReplace", "findNext", "findPrevious" }

\* chords of key-down events: complete ones, and modifiers held alone
KeyChords == Chords \cup { << "ctrl" >>, << "ctrl", "shift" >> }

\* ve.ui.Trigger#isComplete: the chord ends with a key that is no modifier
isComplete(chord) ==
    /\ Len(chord) > 0
    /\ chord[Len(chord)] \notin Range(ModifierOrder)

\* The indexes a trigger listener over the given commands may hold: each
\* trigger string leads to one of the commands or to none; at most
\* MaxKeyBindings trigger strings lead to a command, and no command has two
ListenersOf(cmds) ==
    { idx \in [TriggerStrings -> cmds \cup { "" }] :
        /\ Cardinality({ t \in TriggerStrings : idx[t] # "" }) <= MaxKeyBindings
        /\ \A t1, t2 \in TriggerStrings :
              (t1 # t2 /\ idx[t1] # "") => idx[t1] # idx[t2] }

NoKeyCall(op) ==
    [op |-> op, chord |-> << >>, ret |-> "false", active |-> Null,
     lookups |-> << >>, executed |-> << >>, prevented |-> FALSE]

\* setupTriggerListeners with a registry that has no trigger for any of
\* the commands
KeyInit ==
    /\ documentTriggerListener = [t \in TriggerStrings |-> ""]
    /\ targetTriggerListener = [t \in TriggerStrings |-> ""]
    /\ keyCall = NoKeyCall("none")

\* setupTriggerListeners with any registry
setupTriggerListeners ==
    /\ documentTriggerListener \in ListenersOf(documentCommands)
    /\ targetTriggerListener \in ListenersOf(targetCommands)
    /\ keyCall = NoKeyCall("none")

\* What a handler does with an event: the lookups it makes in its listener,
\* the commands it executes on the active surface (`ret` is what execute
\* returns) and whether it calls e.preventDefault().
\* Variant of onDocumentKeyDown that suppresses the default for every
\* command it executes:
onDocumentKeyDown_anyResult(call, listener, active, chord, ret) ==
    IF isComplete(chord)
    THEN LET str == TriggerToString(chord)
             command == listener[str]
             run == active # Null /\ command # ""
         IN  [call EXCEPT
                 !.lookups = << [listener |-> "document", trigger |-> str] >>,
                 !.executed = IF run
                              THEN << [command |-> command, surface |-> active] >>
                              ELSE << >>,
                 !.prevented = run]
    ELSE call

onDocumentKeyDown(call, listener, active, chord, ret) ==
    IF isComplete(chord)
    THEN LET str == TriggerToString(chord)
             command == listener[str]
             run == active # Null /\ command # ""
         IN  [call EXCEPT
                 !.lookups = << [listener |-> "document", trigger |-> str] >>,
                 !.executed = IF run
                              THEN << [command |-> command, surface |-> active] >>
                              ELSE << >>,
                 !.prevented = run /\ TruthyValue(ret)]
    ELSE call

onTargetKeyDown(call, listener, active, chord, ret) ==
    IF isComplete(chord)
    THEN LET str == TriggerToString(chord)
             command == listener[str]
             run == active # Null /\ command # ""
         IN  [call EXCEPT
                 !.lookups = << [listener |-> "target", trigger |-> str] >>,
                 !.executed = IF run
                              THEN << [command |-> command, surface |-> active] >>
                              ELSE << >>,
                 !.prevented = run /\ TruthyValue(ret)]
    ELSE call

\* key-down events; `ret` is read only when a command is executed
KeyEvents == [chord : KeyChords, ret : CommandReturns]

\* the handler with this listener executes a command on this chord
Runs(listener, chord) ==
    /\ isComplete(chord)
    /\ surface # Null
    /\ listener[TriggerToString(chord)] # ""

DocumentKeyDown ==
    /\ \E e \in KeyEvents :
          /\ ~Runs(documentTriggerListener, e.chord) => e.ret = "false"
          /\ keyCall' = onDocumentKeyDown(
                 [NoKeyCall("onDocumentKeyDown") EXCEPT !.chord = e.chord,
                                                        !.ret = e.ret,
                                                        !.active = surface],
                 documentTriggerListener, surface, e.chord, e.ret)
    /\ UNCHANGED <<documentTriggerListener, targetTriggerListener>>
    /\ UNCHANGED <<targetAll, surfaceAll, geometryAll, commandAll,
                   lifecycleAll, modeAll, floatAll, progressAll, laterAll>>

TargetKeyDown ==
    /\ \E e \in KeyEvents :
          /\ ~Runs(targetTriggerListener, e.chord) => e.ret = "false"
          /\ keyCall' = onTargetKeyDown(
                 [NoKeyCall("onTargetKeyDown") EXCEPT !.chord = e.chord,
                                                      !.ret = e.ret,
                                                      !.active = surface],
                 targetTriggerListener, surface, e.chord, e.ret)
    /\ UNCHANGED <<documentTriggerListener, targetTriggerListener>>
    /\ UNCHANGED <<targetAll, surfaceAll, geometryAll, commandAll,
                   lifecycleAll, modeAll, floatAll, progressAll, laterAll>>

\* key-down events of a Target whose surfaces are added and made active
KeyNext ==
    \/ DocumentKeyDown
    \/ TargetKeyDown
    \/ AddSurface
    \/ SetSurface

(***************************************************************************)
(* ve.init.Target: the floating toolbar                                    *)
(***************************************************************************)
\* the toolgroups of the toolbar; the first two are popup toolgroups
ToolGroups == { "popup1", "popup2", "bar" }
isPopupToolGroup(g) == g \in { "popup1", "popup2" }

\* toolbar.getElementOffset().top
ElementOffsetTop == 50
ScrollTops == { 0, 40, 50, 60 }
ScrollOffsets == { 0, 10 }

NoFloatCall(op) ==
    [op |-> op, scrollTop |-> 0, wasFloating |-> FALSE, told |-> << >>,
     positioned |-> {}]

FloatInit ==
    /\ floatable = FALSE
    /\ floating = FALSE
    /\ toolbarScrollOffset = 0
    /\ toolgroupActive = [g \in ToolGroups |-> FALSE]
    /\ floatCall = NoFloatCall("none")

FloatState ==
    [ floatable |-> floatable, floating |-> floating,
      toolbarScrollOffset |-> toolbarScrollOffset,
      toolgroupActive |-> toolgroupActive,
      told |-> << >>, positioned |-> {} ]

\* toolbar.float() and toolbar.unfloat()
float(st) == [st EXCEPT !.floating = TRUE, !.told = Append(@, "float")]
unfloat(st) == [st EXCEPT !.floating = FALSE, !.told = Append(@, "unfloat")]

\* Variant of onContainerScroll that repositions the popups on every event
onContainerScroll_alwaysPosition(st, top) ==
    IF st.floatable
    THEN LET s1 == IF top + st.toolbarScrollOffset > ElementOffsetTop
                   THEN float(st) ELSE unfloat(st)
         IN  [s1 EXCEPT !.positioned =
                     { g \in ToolGroups :
                         isPopupToolGroup(g) /\ s1.toolgroupActive[g] }]
    ELSE st

\* `top` is this.$scrollContainer.scrollTop()
onContainerScroll(st, top) ==
    IF st.floatable
    THEN LET wasFloating == st.floating
             s1 == IF top + st.toolbarScrollOffset > ElementOffsetTop
                   THEN float(st) ELSE unfloat(st)
         IN  IF s1.floating # wasFloating
             THEN [s1 EXCEPT !.positioned =
                     { g \in ToolGroups :
                         isPopupToolGroup(g) /\ s1.toolgroupActive[g] }]
             ELSE s1
    ELSE st

FloatStep(st, call) ==
    /\ floatable' = st.floatable
    /\ floating' = st.floating
    /\ toolbarScrollOffset' = st.toolbarScrollOffset
    /\ toolgroupActive' = st.toolgroupActive
    /\ floatCall' = [call EXCEPT !.told = st.told, !.positioned = st.positioned]
    /\ UNCHANGED <<surfaceAll, geometryAll, commandAll, lifecycleAll,
                   modeAll, keyAll, progressAll, laterAll>>

\* a scroll event of the scroll container; this.getToolbar() creates the
\* toolbar when there is none
ContainerScroll ==
    /\ \E top \in ScrollTops :
          FloatStep(onContainerScroll(FloatState, top),
                    [NoFloatCall("onContainerScroll") EXCEPT
                        !.scrollTop = top, !.wasFloating = floating])
    /\ toolbar' = TRUE
    /\ UNCHANGED <<surfaces, surface, actionsToolbar, toolbarSurface,
                   handlersBound, teardownPromise, activeVars, destroyed,
                   created, thrown, promisesMade, destroyVars, targetObs>>

\* the toolbar becomes floatable or stops being floatable
SetFloatable ==
    /\ \E b \in BOOLEAN :
          /\ b # floatable
          /\ FloatStep([FloatState EXCEPT !.floatable = b],
                       NoFloatCall("setFloatable"))
    /\ UNCHANGED targetAll

\* a toolgroup is opened or closed
ToggleToolGroup ==
    /\ \E g \in ToolGroups :
          FloatStep([FloatState EXCEPT !.toolgroupActive[g] = ~@],
                    NoFloatCall("toggleToolGroup"))
    /\ UNCHANGED targetAll

FloatNext ==
    \/ ContainerScroll
    \/ SetFloatable
    \/ ToggleToolGroup

(***************************************************************************)
(* ve.ui.Surface: progress bars                                            *)
(***************************************************************************)
ProgressLabels == { "a", "b" }

NoProgressCall(op) == [op |-> op, returned |-> 0]

ProgressInit ==
    /\ progresses = << >>
    /\ flushPending = FALSE
    /\ opened = << >>
    /\ progressCreated = 0
    /\ progressCall = NoProgressCall("none")

ProgressState ==
    [ progresses |-> progresses, flushPending |-> flushPending,
      opened |-> opened, created |-> progressCreated, returned |-> 0 ]

\* this.showProgressDebounced(): the timer is armed, or armed anew
showProgressDebounced(st) == [st EXCEPT !.flushPending = TRUE]

\* The descriptor holds the label, the cancellable flag and a fresh
\* deferred, which the number of the call stands for; the promise of that
\* deferred is returned
createProgress(st, label, nonCancellable) ==
    LET id == st.created + 1
        s1 == [st EXCEPT !.created = id,
                         !.progresses = Append(@, [id |-> id, label |-> label,
                                                   cancellable |-> ~nonCancellable]),
                         !.returned = id]
    IN  showProgressDebounced(s1)

\* Variant of showProgress that keeps the queue
showProgress_keepQueue(st) ==
    [st EXCEPT !.opened = Append(@, st.progresses),
               !.flushPending = FALSE]

\* the timer fires: the dialog is opened with the queue, and the queue is
\* replaced by an empty one
showProgress(st) ==
    [st EXCEPT !.opened = Append(@, st.progresses),
               !.progresses = << >>,
               !.flushPending = FALSE]

ProgressStep(st, op) ==
    /\ progresses' = st.progresses
    /\ flushPending' = st.flushPending
    /\ opened' = st.opened
    /\ progressCreated' = st.created
    /\ progressCall' = [NoProgressCall(op) EXCEPT !.returned = st.returned]
    /\ UNCHANGED <<targetAll, surfaceAll, geometryAll, commandAll,
                   lifecycleAll, modeAll, keyAll, floatAll, laterAll>>

CreateProgress ==
    /\ progressCreated < MaxProgress
    /\ \E label \in ProgressLabels, nonCancellable \in BOOLEAN :
          ProgressStep(createProgress(ProgressState, label, nonCancellable),
                       "createProgress")

ShowProgress ==
    /\ flushPending
    /\ ProgressStep(showProgress(ProgressState), "showProgress")

ProgressNext ==
    \/ CreateProgress
    \/ ShowProgress

(***************************************************************************)
(* ve.Surface (src/modules/ve/ve.Surface.js): command setup and execute    *)
(*                                                                         *)
(* ve.commandRegistry, ve.triggerRegistry, ve.Command and ve.actionFactory *)
(* are not part of the sources; they are modelled from what the handlers   *)
(* expect of them.  The trigger registry is keyed by the command name (the *)
(* user language that prefixes the key is the same throughout).            *)
(***************************************************************************)
LegacyNames == { "bold", "italic" }
\* a name no command is registered by
UnknownName == "unknown"
\* chords as they are written in a trigger definition; the last one holds
\* a modifier alone
LegacyChords ==
    { << "ctrl", "b" >>, << "ctrl", "shift", "b" >>, << "shift", "ctrl", "b" >>,
      << "ctrl" >> }

\* ( new ve.Command( trigger ) ).toString(): the normalized trigger string,
\* empty when the trigger has no key
LegacyToString(chord) ==
    IF isComplete(chord) THEN TriggerToString(chord) ELSE << >>

LegacyTriggerStrings == { LegacyToString(c) : c \in LegacyChords } \ { << >> }

\* the data of an entry of the trigger registry: its trigger is one chord
\* or an array of chords
NoData == [isArray |-> FALSE, trigger |-> << >>, registered |-> FALSE]
TriggerData ==
    { [isArray |-> FALSE, trigger |-> << c >>, registered |-> TRUE] :
        c \in { << "ctrl", "b" >>, << "shift", "ctrl", "b" >>, << "ctrl" >> } }
    \cup { [isArray |-> TRUE, trigger |-> t, registered |-> TRUE] :
             t \in { << << "ctrl", "b" >>, << "shift", "ctrl", "b" >> >>,
                     << << "ctrl", "b" >>, << "ctrl" >> >>,
                     << << "ctrl" >>, << "ctrl", "b" >> >> } }

\* this.options.commands as the caller may give it
LegacyLists ==
    { << >> } \cup { << n >> : n \in LegacyNames \cup { UnknownName } }
    \cup { << n1, n2 >> : n1 \in LegacyNames, n2 \in LegacyNames \cup { UnknownName } }

\* command.action of a registered command: action, method and argument
LegacyAction(name) == << "annotation", "toggle", name >>
\* ve.actionFactory.doesActionSupportMethod
legacyDoesActionSupportMethod(action, method) ==
    action = "annotation" /\ method = "toggle"

\* the first argument of execute: a ve.Command, a string, or something else
LegacyArgs ==
    { [kind |-> "command", chord |-> c, name |-> ""] : c \in LegacyChords }
    \cup { [kind |-> "string", chord |-> << >>, name |-> a] :
             a \in { "annotation", "bogus" } }
    \cup { [kind |-> "other", chord |-> << >>, name |-> ""] }
LegacyMethods == { "toggle", "undefined" }
\* what the method of an action may return
LegacyReturns == { "undefined", "true", "false" }

NoLegacyCall(op) ==
    [op |-> op, name |-> "", arg |-> CHOOSE a \in LegacyArgs : a.kind = "other",
     method |-> "undefined", thrown |-> "none", writes |-> << >>,
     invoked |-> << >>, result |-> "none"]

LegacyInit ==
    /\ legacyCommandRegistry = {}
    /\ legacyTriggerRegistry = [n \in LegacyNames |-> NoData]
    /\ legacyOptions = << >>
    /\ legacyCommands = [t \in LegacyTriggerStrings |-> ""]
    /\ legacyBuilt = "none"
    /\ legacyListening = FALSE
    /\ legacyEnabled = TRUE
    /\ legacyRegisters = 0
    /\ legacyCall = NoLegacyCall("none")

LegacyState ==
    [ commandRegistry |-> legacyCommandRegistry,
      triggerRegistry |-> legacyTriggerRegistry,
      options |-> legacyOptions, commands |-> legacyCommands,
      built |-> legacyBuilt, listening |-> legacyListening,
      enabled |-> legacyEnabled,
      thrown |-> "none", writes |-> << >>, invoked |-> << >>,
      result |-> "none" ]

\* ve.commandRegistry.lookup( name ): the command, or undefined
legacyLookup(st, name) ==
    IF name \in st.commandRegistry THEN name ELSE "undefined"

\* Variant of the body of the loop of loadTriggers that keeps the command a
\* trigger string already leads to
loadTrigger_keepFirst(st, raw, command, entry, index) ==
    LET trigger == LegacyToString(raw)
    IN  IF trigger = << >>
        THEN [st EXCEPT !.thrown = "Incomplete command"]
        ELSE IF command = "undefined"
        THEN [st EXCEPT !.thrown = "TypeError"]
        ELSE IF st.commands[trigger] # ""
        THEN st
        ELSE [st EXCEPT !.commands[trigger] = command,
                        !.writes = Append(@, [entry |-> entry, index |-> index,
                                              trigger |-> trigger,
                                              command |-> command])]

\* Variant of the body of the loop of loadTriggers that passes over a
\* trigger without a key
loadTrigger_skipIncomplete(st, raw, command, entry, index) ==
    LET trigger == LegacyToString(raw)
    IN  IF trigger = << >>
        THEN st
        ELSE IF command = "undefined"
        THEN [st EXCEPT !.thrown = "TypeError"]
        ELSE [st EXCEPT !.commands[trigger] = command,
                        !.writes = Append(@, [entry |-> entry, index |-> index,
                                              trigger |-> trigger,
                                              command |-> command])]

\* The body of the loop of loadTriggers: normalize, validate, and let the
\* trigger string lead to the action of the command (the command's name
\* stands for its action).  Reading .action of an undefined command throws.
loadTrigger(st, raw, command, entry, index) ==
    LET trigger == LegacyToString(raw)
    IN  IF trigger = << >>
        THEN [st EXCEPT !.thrown = "Incomplete command"]
        ELSE IF command = "undefined"
        THEN [st EXCEPT !.thrown = "TypeError"]
        ELSE [st EXCEPT !.commands[trigger] = command,
                        !.writes = Append(@, [entry |-> entry, index |-> index,
                                              trigger |-> trigger,
                                              command |-> command])]

RECURSIVE loadTriggersFrom(_, _, _, _, _)
\* for ( i = 0, len = triggers.length; i < len; i++ ), left by a throw
loadTriggersFrom(st, triggers, command, entry, i) ==
    IF st.thrown # "none" \/ i > Len(triggers)
    THEN st
    ELSE loadTriggersFrom(loadTrigger(st, triggers[i], command, entry, i),
                          triggers, command, entry, i + 1)

\* loadTriggers( triggers, command ); a trigger that is no array is wrapped
\* in one.  entry is the place of the command in this.options.commands (0
\* for a later registration)
loadTriggers(st, data, command, entry) ==
    LET triggers == IF data.isArray THEN data.trigger ELSE << data.trigger[1] >>
    IN  loadTriggersFrom(st, triggers, command, entry, 1)

RECURSIVE setupCommandsFrom(_, _)
\* for ( i = 0, len = commands.length; i < len; i++ ), left by a throw;
\* .trigger of an entry the trigger registry does not hold throws
setupCommandsFrom(st, i) ==
    IF st.thrown # "none" \/ i > Len(st.options)
    THEN st
    ELSE LET command == legacyLookup(st, st.options[i])
         IN  IF command = "undefined"
             THEN [st EXCEPT !.thrown = "No command registered by that name"]
             ELSE IF ~st.triggerRegistry[st.options[i]].registered
             THEN [st EXCEPT !.thrown = "TypeError"]
             ELSE setupCommandsFrom(
                      loadTriggers(st, st.triggerRegistry[st.options[i]],
                                   command, i),
                      i + 1)

\* setupCommands(): load the triggers of the listed commands, then bind the
\* 'register' handler of the trigger registry
setupCommands(st) ==
    LET s1 == setupCommandsFrom(st, 1)
    IN  IF s1.thrown # "none" THEN s1 ELSE [s1 EXCEPT !.listening = TRUE]

\* the part of the constructor that sets the commands up: this.options,
\* this.commands = {}, this.enabled = true, this.setupCommands()
VeSurface(st, options) ==
    LET s0 == [st EXCEPT !.options = options,
                         !.commands = [t \in LegacyTriggerStrings |-> ""],
                         !.enabled = TRUE]
        s1 == setupCommands(s0)
    IN  [s1 EXCEPT !.built = IF s1.thrown # "none" THEN "failed" ELSE "built"]

\* the handler bound to 'register' of the trigger registry
onTriggerRegister(st, name, data) ==
    loadTriggers(st, data, legacyLookup(st, name), 0)

\* ve.triggerRegistry.register( name, data ): the entry is kept and
\* 'register' is emitted
triggerRegistryRegister(st, name, data) ==
    LET s1 == [st EXCEPT !.triggerRegistry[name] = data]
    IN  IF st.listening THEN onTriggerRegister(s1, name, data) ELSE s1

\* the second branch of execute: an action and a method, both strings
legacyExecuteAction(st, action, method, args, ret) ==
    IF legacyDoesActionSupportMethod(action, method)
    THEN [st EXCEPT !.invoked = Append(@, << action, method >> \o args),
                    !.result = IF ret = "undefined" \/ TruthyValue(ret)
                               THEN "true" ELSE "false"]
    ELSE [st EXCEPT !.result = "false"]

\* ve.Surface.prototype.execute( action, method ); a ve.Command is looked
\* up by its trigger string and execute is applied to the action it leads
\* to.  ret is what the method of the action returns if it is invoked
legacyExecute(st, a, method, ret) ==
    IF ~st.enabled
    THEN [st EXCEPT !.result = "undefined"]
    ELSE IF a.kind = "command"
    THEN LET trigger == LegacyToString(a.chord)
         IN  IF trigger \in LegacyTriggerStrings /\ st.commands[trigger] # ""
             THEN LET action == LegacyAction(st.commands[trigger])
                  IN  legacyExecuteAction(st, action[1], action[2],
                                          << action[3] >>, ret)
             ELSE [st EXCEPT !.result = "false"]
    ELSE IF a.kind = "string" /\ method # "undefined"
    THEN legacyExecuteAction(st, a.name, method, << >>, ret)
    ELSE [st EXCEPT !.result = "false"]

\* disable() and enable(), as far as this.enabled goes
legacyDisable(st) == [st EXCEPT !.enabled = FALSE]
legacyEnable(st) == [st EXCEPT !.enabled = TRUE]

(***************************************************************************)
(* Steps of the ve.Surface machine                                         *)
(***************************************************************************)
LegacyStep(st, call) ==
    /\ legacyCommandRegistry' = st.commandRegistry
    /\ legacyTriggerRegistry' = st.triggerRegistry
    /\ legacyOptions' = st.options
    /\ legacyCommands' = st.commands
    /\ legacyBuilt' = st.built
    /\ legacyListening' = st.listening
    /\ legacyEnabled' = st.enabled
    /\ legacyCall' = [call EXCEPT !.thrown = st.thrown, !.writes = st.writes,
                                  !.invoked = st.invoked, !.result = st.result]
    /\ UNCHANGED <<baseAll, selectAll, wiringAll, globalAll>>

\* ve.commandRegistry.register, before the surface is constructed
LegacyRegisterCommand ==
    \E n \in LegacyNames :
        /\ legacyBuilt = "none"
        /\ n \notin legacyCommandRegistry
        /\ LegacyStep([LegacyState EXCEPT !.commandRegistry = @ \cup { n }],
                      [NoLegacyCall("registerCommand") EXCEPT !.name = n])
        /\ UNCHANGED legacyRegisters

\* ve.triggerRegistry.register, before or after the surface is constructed
LegacyRegisterTrigger ==
    \E n \in LegacyNames, data \in TriggerData :
        /\ legacyBuilt # "failed"
        /\ legacyBuilt = "none" => ~legacyTriggerRegistry[n].registered
        /\ legacyBuilt = "built" => legacyRegisters < MaxLegacyRegisters
        /\ LegacyStep(triggerRegistryRegister(LegacyState, n, data),
                      [NoLegacyCall("registerTrigger") EXCEPT !.name = n])
        /\ legacyRegisters' = IF legacyBuilt = "built"
                              THEN legacyRegisters + 1 ELSE legacyRegisters

LegacyConstruct ==
    \E options \in LegacyLists :
        /\ legacyBuilt = "none"
        /\ LegacyStep(VeSurface(LegacyState, options),
                      NoLegacyCall("constructor"))
        /\ UNCHANGED legacyRegisters

LegacyExecute ==
    \E a \in LegacyArgs, method \in LegacyMethods, ret \in LegacyReturns :
        /\ legacyBuilt = "built"
        /\ a.kind # "string" => method = "undefined"
        /\ ret # "undefined" =>
               legacyExecute(LegacyState, a, method, ret).invoked # << >>
        /\ LegacyStep(legacyExecute(LegacyState, a, method, ret),
                      [NoLegacyCall("execute") EXCEPT !.arg = a,
                                                      !.method = method])
        /\ UNCHANGED legacyRegisters

LegacyEnable ==
    \E on \in BOOLEAN :
        /\ legacyBuilt = "built"
        /\ legacyEnabled # on
        /\ LegacyStep(IF on THEN legacyEnable(LegacyState)
                      ELSE legacyDisable(LegacyState),
                      NoLegacyCall(IF on THEN "enable" ELSE "disable"))
        /\ UNCHANGED legacyRegisters

LegacyNext ==
    \/ LegacyRegisterCommand
    \/ LegacyRegisterTrigger
    \/ LegacyConstruct
    \/ LegacyExecute
    \/ LegacyEnable

(***************************************************************************)
(* ve.ui.Surface: 'select' events of the model, 'position' events of the   *)
(* view, 'resize' events of the context, and the debounced scroll          *)
(*                                                                         *)
(* ve.debounce is not part of the sources: the function it returns arms a  *)
(* timer, or arms it anew when it is armed already, and the wrapped        *)
(* function runs once when the timer fires.                                *)
(***************************************************************************)
\* the selection of the model, by the kind of cursor the view shows it with
Selections == { "native", "virtual" }

\* what the browser reports when the selection is scrolled into view
SelectEnvs ==
    { e \in FlowEnvs :
        /\ e.native = (selection = "native")
        /\ e.focusRect.ok /\ e.surfaceRect.ok /\ e.surfaceRect.top = 0 }

\* the padding the context or the toolbar dialogs report
SelectPadding == [s \in { "bottom" } |-> 10]

NoSelectCall(op) == [op |-> op, suppressed |-> FALSE, burst |-> 0,
                     hasPadding |-> FALSE]

SelectInit ==
    /\ viewDragging = FALSE
    /\ selection = "native"
    /\ scrollTimer = FALSE
    /\ resizeTimer = FALSE
    /\ selectBurst = 0
    /\ selectCall = NoSelectCall("none")

SelectState ==
    [ geo |-> GeometryState, dragging |-> viewDragging,
      scrollTimer |-> scrollTimer, resizeTimer |-> resizeTimer ]

\* this.scrollSelectionIntoViewDebounced(): the 500 ms timer is armed, or
\* armed anew
scrollSelectionIntoViewDebounced(st) == [st EXCEPT !.scrollTimer = TRUE]

\* Variant of the timer's firing that leaves the timer armed
scrollSelectionIntoViewTimeout_keepArmed(st, env) ==
    [st EXCEPT !.geo = scrollSelectionIntoView(
                           called(@, "scrollSelectionIntoView", 0), env)]

\* the 500 ms timer fires: scrollSelectionIntoView runs, with no argument
scrollSelectionIntoViewTimeout(st, env) ==
    [st EXCEPT !.scrollTimer = FALSE,
               !.geo = scrollSelectionIntoView(
                           called(@, "scrollSelectionIntoView", 0), env)]

\* Variant of onModelSelect that schedules nothing
onModelSelect_notDebounced(st) == st

\* dragging ^ isMobile is 1 when exactly one of the two holds
onModelSelect(st) ==
    IF st.dragging # st.geo.isMobile
    THEN st
    ELSE scrollSelectionIntoViewDebounced(st)

\* the handler connected to 'resize' of the context is
\* ve.debounce( onContextResize ): the event arms its timer
onContextResizeDebounced(st) == [st EXCEPT !.resizeTimer = TRUE]

\* that timer fires: onContextResize runs
onContextResizeTimeout(st, hasPadding, pad, env, isIos) ==
    [st EXCEPT !.resizeTimer = FALSE,
               !.geo = onContextResize(@, hasPadding, pad, env, isIos)]

(***************************************************************************)
(* Steps of the selection machine                                          *)
(***************************************************************************)
SelectStep(st, call, sel, burst) ==
    /\ padding' = st.geo.padding
    /\ toolbarHeight' = st.geo.toolbarHeight
    /\ isMobile' = st.geo.isMobile
    /\ scrollTop' = st.geo.scrollTop
    /\ pendingScrolls' = st.geo.pendingScrolls
    /\ geoEmitted' = st.geo.emitted
    /\ geoCall' = [GeoCall(call.op) EXCEPT !.scrolls = st.geo.scrolls,
                                           !.calls = st.geo.calls,
                                           !.thrown = st.geo.thrown,
                                           !.native = (sel = "native")]
    /\ viewDragging' = st.dragging
    /\ scrollTimer' = st.scrollTimer
    /\ resizeTimer' = st.resizeTimer
    /\ selection' = sel
    /\ selectBurst' = burst
    /\ selectCall' = call
    /\ UNCHANGED <<targetAll, surfaceAll, commandAll, lifecycleAll,
                   modeAll, keyAll, floatAll, progressAll, legacyAll,
                   wiringAll, globalAll>>

\* the selection of the model changes and 'select' is emitted
ModelSelect ==
    \E sel \in Selections :
        /\ selectBurst < MaxBurst
        /\ SelectStep(onModelSelect(SelectState),
                      [NoSelectCall("onModelSelect") EXCEPT
                          !.suppressed = (viewDragging # isMobile)],
                      sel,
                      IF viewDragging # isMobile
                      THEN selectBurst ELSE selectBurst + 1)

\* a mouse button goes down on the view, or up
ViewDragging ==
    /\ SelectStep([SelectState EXCEPT !.dragging = ~viewDragging],
                  NoSelectCall("dragging"), selection, selectBurst)

\* the timer of scrollSelectionIntoViewDebounced fires
ScrollTimeout ==
    /\ scrollTimer
    /\ Len(pendingScrolls) < MaxPending
    /\ \E env \in SelectEnvs :
          SelectStep(scrollSelectionIntoViewTimeout(SelectState, env),
                     [NoSelectCall("scrollTimeout") EXCEPT
                         !.burst = selectBurst],
                     selection, 0)

\* 'position' of the view
ViewPosition ==
    /\ pendingScrolls = << >>
    /\ \E hasPadding \in BOOLEAN, env \in SelectEnvs :
          SelectStep([SelectState EXCEPT !.geo =
                         onViewPosition(@, hasPadding, SelectPadding, env,
                                        FALSE, FALSE)],
                     [NoSelectCall("onViewPosition") EXCEPT
                         !.hasPadding = hasPadding],
                     selection, selectBurst)

\* 'resize' of the context
ContextResize ==
    /\ SelectStep(onContextResizeDebounced(SelectState),
                  NoSelectCall("contextResize"), selection, selectBurst)

\* the timer of the debounced onContextResize fires
ContextResizeTimeout ==
    /\ resizeTimer
    /\ pendingScrolls = << >>
    /\ \E hasPadding \in BOOLEAN, env \in SelectEnvs :
          SelectStep(onContextResizeTimeout(SelectState, hasPadding,
                                            SelectPadding, env, FALSE),
                     [NoSelectCall("onContextResize") EXCEPT
                         !.hasPadding = hasPadding],
                     selection, selectBurst)

\* the promise of a ve.scrollIntoView call resolves
SelectScrollDone ==
    /\ \E i \in 1..Len(pendingScrolls), to \in ScrollPositions :
          SelectStep([SelectState EXCEPT !.geo = scrollDone(@, i, to)],
                     NoSelectCall("scrollDone"), selection, selectBurst)

SelectNext ==
    \/ ModelSelect
    \/ ViewDragging
    \/ ScrollTimeout
    \/ ViewPosition
    \/ ContextResize
    \/ ContextResizeTimeout
    \/ SelectScrollDone

(***************************************************************************)
(* ve.init.Target: the events of its toolbars                              *)
(*                                                                         *)
(* OO.EventEmitter is not part of the sources.  connect() adds a binding   *)
(* for each event it is given, whether or not the same handler is bound    *)
(* already, and emit() invokes the bindings of the event one after the     *)
(* other.  An emit in progress is a state of its own: until its last       *)
(* handler has run no other step is taken.                                 *)
(***************************************************************************)
NotEmitting ==
    [event |-> "none", active |-> FALSE, height |-> 0, connects |-> 0,
     left |-> 0, before |-> 0, runs |-> 0]

NoWiringCall(op) == [op |-> op, activated |-> {}, owed |-> {}]

WiringInit ==
    /\ toolbarConnects = 0
    /\ actionsConnects = 0
    /\ frames = 0
    /\ emitting = NotEmitting
    /\ toolbarDeactivated = {}
    /\ wiringCall = NoWiringCall("none")

\* the part of setupToolbar that binds the Target to the events of the two
\* toolbars
setupToolbarConnect ==
    /\ toolbarConnects' = toolbarConnects + 1
    /\ actionsConnects' = actionsConnects + 1

\* rAF( this.onContainerScrollHandler )
setupToolbarFrame == frames' = frames + 1

\* the toolbars are discarded by teardownToolbar, and their bindings with
\* them
teardownToolbarBindings ==
    /\ toolbarConnects' = 0
    /\ actionsConnects' = 0

(***************************************************************************)
(* Steps of the toolbar-event machine                                      *)
(***************************************************************************)
WiringAddSurface ==
    /\ emitting.left = 0
    /\ created < MaxSurfaces
    /\ addSurface
    /\ UNCHANGED <<surface, toolbarVars, handlersBound, teardownPromise,
                   activeVars, destroyed, destroyLog, promisesMade,
                   teardownLog, firstReturned, lastReturned, destroyVars>>
    /\ Observe("addSurface", created + 1, FALSE)
    /\ wiringCall' = NoWiringCall("addSurface")
    /\ UNCHANGED <<toolbarConnects, actionsConnects, frames, emitting,
                   toolbarDeactivated>>
    /\ UNCHANGED <<surfaceAll, geometryAll, commandAll, lifecycleAll,
                   modeAll, keyAll, floatAll, progressAll, legacyAll,
                   selectAll, globalAll>>

\* setSurface( s ), called directly or by the 'focus' event of the view of
\* a surface of the Target; setupToolbar runs when the surface changes
WiringSetSurface ==
    \E s \in SurfaceIds, byFocus \in BOOLEAN :
        /\ emitting.left = 0
        /\ toolbarConnects < MaxConnects
        /\ frames < MaxFrames
        /\ byFocus => s \in Range(surfaces)
        /\ IF byFocus THEN onSurfaceViewFocus(s) ELSE setSurface(s)
        /\ UNCHANGED <<surfaces, handlersBound, teardownPromise, activeVars,
                       destroyed, created, destroyLog, promisesMade,
                       teardownLog, firstReturned, lastReturned, destroyVars>>
        /\ Observe(IF byFocus THEN "onSurfaceViewFocus" ELSE "setSurface",
                   s, FALSE)
        /\ IF surface' # surface
           THEN setupToolbarConnect /\ setupToolbarFrame
           ELSE UNCHANGED <<toolbarConnects, actionsConnects, frames>>
        /\ wiringCall' = NoWiringCall("setSurface")
        /\ UNCHANGED <<emitting, toolbarDeactivated>>
        /\ UNCHANGED <<surfaceAll, geometryAll, commandAll, lifecycleAll,
                       modeAll, keyAll, floatAll, progressAll, legacyAll,
                       selectAll, globalAll>>

\* one of the toolbars emits 'active', or the toolbar emits 'resize'
WiringEmit ==
    \E which \in { "toolbar", "actions" }, event \in { "active", "resize" },
       active \in BOOLEAN, h \in ResizeValues :
        /\ emitting.left = 0
        /\ which = "toolbar" => toolbar
        /\ which = "actions" => actionsToolbar /\ event = "active"
        /\ event = "resize" => ~active
        /\ event = "active" => h = 0
        /\ LET n == IF which = "toolbar" THEN toolbarConnects
                    ELSE actionsConnects
           IN  /\ (event = "active" /\ active) =>
                      activeToolbars + n <= MaxActive
               /\ (event = "active" /\ ~active) =>
                      activeToolbars - n >= -MaxActive
               /\ emitting' = [event |-> event, active |-> active,
                               height |-> h, connects |-> n, left |-> n,
                               before |-> activeToolbars, runs |-> 0]
        /\ wiringCall' = NoWiringCall("emit")
        /\ UNCHANGED <<toolbarConnects, actionsConnects, frames,
                       toolbarDeactivated>>
        /\ UNCHANGED <<baseAll, legacyAll, selectAll, globalAll>>

\* the next binding of an 'active' event runs onToolbarActive
WiringDeliverActive ==
    /\ emitting.left > 0
    /\ emitting.event = "active"
    /\ onToolbarActive(emitting.active)
    /\ UNCHANGED <<surfaces, surface, toolbarVars, handlersBound,
                   teardownPromise, destroyed, created, destroyLog,
                   promisesMade, teardownLog, firstReturned, lastReturned,
                   destroyVars>>
    /\ Observe("onToolbarActive", surface, emitting.active)
    /\ emitting' = [emitting EXCEPT !.left = @ - 1, !.runs = @ + 1]
    /\ LET off == { s \in SurfaceIds : deactivated'[s] /\ ~deactivated[s] }
           on == { s \in SurfaceIds : ~deactivated'[s] /\ deactivated[s] }
       IN  /\ toolbarDeactivated' = (toolbarDeactivated \cup off) \ on
           /\ wiringCall' = [NoWiringCall("onToolbarActive") EXCEPT
                                !.activated = on,
                                !.owed = toolbarDeactivated]
    /\ UNCHANGED <<toolbarConnects, actionsConnects, frames>>
    /\ UNCHANGED <<surfaceAll, geometryAll, commandAll, lifecycleAll,
                   modeAll, keyAll, floatAll, progressAll, legacyAll,
                   selectAll, globalAll>>

\* the next binding of a 'resize' event runs onToolbarResize
WiringDeliverResize ==
    /\ emitting.left > 0
    /\ emitting.event = "resize"
    /\ surface # Null
    /\ LET st == onToolbarResize(GeometryState,
                                 emitting.height + toolbarScrollOffset)
       IN  /\ padding' = st.padding
           /\ toolbarHeight' = st.toolbarHeight
           /\ geoCall' = [GeoCall("onToolbarResize") EXCEPT
                             !.calls = st.calls]
    /\ UNCHANGED <<isMobile, scrollTop, pendingScrolls, geoEmitted>>
    /\ emitting' = [emitting EXCEPT !.left = @ - 1, !.runs = @ + 1]
    /\ wiringCall' = NoWiringCall("onToolbarResize")
    /\ UNCHANGED <<toolbarConnects, actionsConnects, frames,
                   toolbarDeactivated>>
    /\ UNCHANGED <<targetAll, surfaceAll, commandAll, lifecycleAll,
                   modeAll, keyAll, floatAll, progressAll, legacyAll,
                   selectAll, globalAll>>

\* a callback given to requestAnimationFrame runs: onContainerScroll, whose
\* this.getToolbar() creates the toolbar when there is none
WiringAnimationFrame ==
    /\ emitting.left = 0
    /\ frames > 0
    /\ frames' = frames - 1
    /\ \E top \in { 0, 60 } :
          LET st == onContainerScroll(FloatState, top)
          IN  /\ floatable' = st.floatable
              /\ floating' = st.floating
              /\ toolbarScrollOffset' = st.toolbarScrollOffset
              /\ toolgroupActive' = st.toolgroupActive
              /\ floatCall' = [NoFloatCall("onContainerScroll") EXCEPT
                                  !.scrollTop = top,
                                  !.wasFloating = floating,
                                  !.told = st.told,
                                  !.positioned = st.positioned]
    /\ toolbar' = TRUE
    /\ UNCHANGED <<surfaces, surface, actionsToolbar, toolbarSurface,
                   handlersBound, teardownPromise, activeVars, destroyed,
                   created, thrown, promisesMade, destroyVars, targetObs>>
    /\ wiringCall' = NoWiringCall("animationFrame")
    /\ UNCHANGED <<toolbarConnects, actionsConnects, emitting,
                   toolbarDeactivated>>
    /\ UNCHANGED <<surfaceAll, geometryAll, commandAll, lifecycleAll,
                   modeAll, keyAll, progressAll, legacyAll, selectAll, globalAll>>

WiringTeardown ==
    /\ emitting.left = 0
    /\ teardown
    /\ UNCHANGED <<surfaces, surface, activeVars, destroyed, created,
                   destroyLog, destroyVars>>
    /\ Observe("teardown", Null, FALSE)
    /\ IF teardownPromise = "null"
       THEN teardownToolbarBindings
       ELSE UNCHANGED <<toolbarConnects, actionsConnects>>
    /\ wiringCall' = NoWiringCall("teardown")
    /\ UNCHANGED <<frames, emitting, toolbarDeactivated>>
    /\ UNCHANGED <<surfaceAll, geometryAll, commandAll, lifecycleAll,
                   modeAll, keyAll, floatAll, progressAll, legacyAll,
                   selectAll, globalAll>>

WiringTeardownThen ==
    /\ emitting.left = 0
    /\ teardownPromise = "pending"
    /\ teardownThen
    /\ UNCHANGED <<toolbarVars, handlersBound, activeVars, created,
                   promisesMade, firstReturned, lastReturned, destroyVars>>
    /\ Observe("teardownThen", Null, FALSE)
    /\ wiringCall' = NoWiringCall("teardownThen")
    /\ UNCHANGED <<toolbarConnects, actionsConnects, frames, emitting,
                   toolbarDeactivated>>
    /\ UNCHANGED <<surfaceAll, geometryAll, commandAll, lifecycleAll,
                   modeAll, keyAll, floatAll, progressAll, legacyAll,
                   selectAll, globalAll>>

WiringNext ==
    \/ WiringAddSurface
    \/ WiringSetSurface
    \/ WiringEmit
    \/ WiringDeliverActive
    \/ WiringDeliverResize
    \/ WiringAnimationFrame
    \/ WiringTeardown
    \/ WiringTeardownThen

(***************************************************************************)
(* Several Targets and the global reference ve.init.target                 *)
(***************************************************************************)
TargetIds == 1..MaxTargets

NoTarget ==
    [constructed |-> FALSE, teardownPromise |-> "null", waiting |-> 0,
     rootRemoved |-> FALSE]

NoGlobalCall == [op |-> "none", target |-> Null, before |-> Null]

GlobalInit ==
    /\ veInitTargetRef = Null
    /\ targetObjects = [t \in TargetIds |-> NoTarget]
    /\ globalCall = NoGlobalCall

GlobalState == [ref |-> veInitTargetRef, objects |-> targetObjects]

\* new ve.init.Target(): "ve.init.target = this"
VeInitTarget(st, t) ==
    [st EXCEPT !.ref = t,
               !.objects[t] = [NoTarget EXCEPT !.constructed = TRUE]]

\* t.destroy(): teardown() makes the promise on its first call, and the
\* continuation waits for it
targetDestroy(st, t) ==
    [st EXCEPT !.objects[t].teardownPromise =
                   IF @ = "null" THEN "pending" ELSE @,
               !.objects[t].waiting = @ + 1]

\* the teardown promise of t is resolved
targetTeardownResolved(st, t) ==
    [st EXCEPT !.objects[t].teardownPromise = "resolved"]

\* the continuation of t.destroy(): "target.$element.remove();
\* ve.init.target = null"
targetDestroyThen(st, t) ==
    [st EXCEPT !.ref = Null,
               !.objects[t].rootRemoved = TRUE,
               !.objects[t].waiting = @ - 1]

GlobalStep(st, call) ==
    /\ veInitTargetRef' = st.ref
    /\ targetObjects' = st.objects
    /\ globalCall' = call
    /\ UNCHANGED <<baseAll, legacyAll, selectAll, wiringAll>>

GlobalConstruct ==
    \E t \in TargetIds :
        /\ ~targetObjects[t].constructed
        /\ GlobalStep(VeInitTarget(GlobalState, t),
                      [op |-> "construct", target |-> t,
                       before |-> veInitTargetRef])

GlobalDestroy ==
    \E t \in TargetIds :
        /\ targetObjects[t].constructed
        /\ targetObjects[t].waiting < MaxDestroys
        /\ GlobalStep(targetDestroy(GlobalState, t),
                      [op |-> "destroy", target |-> t,
                       before |-> veInitTargetRef])

GlobalTeardownResolved ==
    \E t \in TargetIds :
        /\ targetObjects[t].teardownPromise = "pending"
        /\ GlobalStep(targetTeardownResolved(GlobalState, t),
                      [op |-> "teardownResolved", target |-> t,
                       before |-> veInitTargetRef])

GlobalDestroyThen ==
    \E t \in TargetIds :
        /\ targetObjects[t].teardownPromise = "resolved"
        /\ targetObjects[t].waiting > 0
        /\ GlobalStep(targetDestroyThen(GlobalState, t),
                      [op |-> "destroyThen", target |-> t,
                       before |-> veInitTargetRef])

GlobalNext ==
    \/ GlobalConstruct
    \/ GlobalDestroy
    \/ GlobalTeardownResolved
    \/ GlobalDestroyThen

(***************************************************************************)
(* Specifications                                                          *)
(***************************************************************************)
\* the initial state of the machines that follow the progress bars
LaterInit ==
    /\ LegacyInit
    /\ SelectInit
    /\ WiringInit
    /\ GlobalInit

Init ==
    /\ TargetInit
    /\ ModeInit /\ KeyInit /\ FloatInit /\ ProgressInit
    /\ LaterInit
    /\ SurfaceInit
    /\ GeometryInit /\ isMobile = FALSE
    /\ CommandInit
    /\ LifecycleInit

Next == TargetNext

\* The Target machine
Spec == Init /\ [][Next]_vars

\* The surface controllers: construction, read-only state, placeholder
SurfaceMachineInit ==
    /\ TargetInit
    /\ ModeInit /\ KeyInit /\ FloatInit /\ ProgressInit
    /\ LaterInit
    /\ SurfaceInit
    /\ GeometryInit /\ isMobile = FALSE
    /\ CommandInit
    /\ LifecycleInit

SurfaceSpec == SurfaceMachineInit /\ [][SurfaceNext]_vars

\* One surface controller: padding and scroll-into-view
GeometryMachineInit ==
    /\ TargetInit
    /\ ModeInit /\ KeyInit /\ FloatInit /\ ProgressInit
    /\ LaterInit
    /\ SurfaceInit
    /\ GeometryInit
    /\ CommandInit
    /\ LifecycleInit

GeometrySpec == GeometryMachineInit /\ [][GeometryNext]_vars

\* One surface controller: the handlers that change its padding
PaddingFlowSpec == GeometryMachineInit /\ [][PaddingFlowNext]_vars

\* One surface controller: setPadding and setToolbarHeight alone
PaddingSpec == Init /\ [][PaddingNext]_vars

\* Command dispatch of one surface controller
CommandSpec == Init /\ [][CommandNext]_vars

\* Surface controllers: event bindings and destruction
LifecycleSpec == Init /\ [][LifecycleNext]_vars

\* One Target: its modes and the surfaces it creates
ModeSpec == Init /\ [][ModeNext]_vars

\* One Target: key-down events, with any trigger listeners
KeyMachineInit ==
    /\ TargetInit
    /\ ModeInit /\ setupTriggerListeners /\ FloatInit /\ ProgressInit
    /\ LaterInit
    /\ SurfaceInit
    /\ GeometryInit /\ isMobile = FALSE
    /\ CommandInit
    /\ LifecycleInit

KeySpec == KeyMachineInit /\ [][KeyNext]_vars

\* One Target: scroll events, with any trigger offset
FloatMachineInit ==
    /\ TargetInit
    /\ ModeInit /\ KeyInit /\ ProgressInit
    /\ LaterInit
    /\ floatable = FALSE
    /\ floating = FALSE
    /\ toolbarScrollOffset \in ScrollOffsets
    /\ toolgroupActive = [g \in ToolGroups |-> FALSE]
    /\ floatCall = NoFloatCall("none")
    /\ SurfaceInit
    /\ GeometryInit /\ isMobile = FALSE
    /\ CommandInit
    /\ LifecycleInit

FloatSpec == FloatMachineInit /\ [][FloatNext]_vars

\* One surface controller: its progress bars
ProgressSpec == Init /\ [][ProgressNext]_vars

\* One ve.Surface: command setup, trigger registration and execute
LegacySpec == Init /\ [][LegacyNext]_vars

\* One surface controller: selection, position and resize events and the
\* timers of its debounced handlers
SelectSpec == GeometryMachineInit /\ [][SelectNext]_vars

\* One Target: its toolbars, their events and the callbacks it schedules
WiringSpec == Init /\ [][WiringNext]_vars

\* The Targets of one page and ve.init.target
GlobalSpec == Init /\ [][GlobalNext]_vars

\* The three dispatch operations of one surface
DispatchSpec == Init /\ [][DispatchNext]_vars

(***************************************************************************)
(* Properties of the Target (checked under Spec)                           *)
(***************************************************************************)
\* The step just taken was onToolbarActive( active ) and it did not throw
ToolbarEvent(active) ==
    /\ lastCall.op = "onToolbarActive"
    /\ lastCall.active = active
    /\ thrown = NoError

\* C1: setSurface(s) with s not in Target.surfaces throws 'Active surface
\* must have been added first' and leaves the active surface as it was, so
\* s never becomes the active surface.
C1_SetSurfaceAbsentThrows ==
    [][ (lastCall'.op = "setSurface" /\ lastCall'.surface \notin Range(surfaces))
          => /\ thrown' = ErrNotAdded
             /\ surface' = surface
             /\ surface' # lastCall'.surface ]_vars

\* C1 witness: setSurface was refused for a surface that had been added and
\* was destroyed by clearSurfaces, while another surface is registered
C1_Witness ==
    /\ lastCall.op = "setSurface"
    /\ thrown = ErrNotAdded
    /\ lastCall.surface \in destroyed
    /\ Len(surfaces) > 0

\* C22: setSurface(s) with s registered and not the active surface makes s
\* the active surface and sets up the toolbar for s; setSurface(s) with s
\* the active surface leaves the active surface and the toolbars as they
\* are; in both cases no surface is destroyed or removed from
\* Target.surfaces.
C22_SetSurfaceSwitchesWithoutDestroying ==
    [][ (lastCall'.op = "setSurface" /\ lastCall'.surface \in Range(surfaces))
          => /\ thrown' = NoError
             /\ surfaces' = surfaces
             /\ destroyed' = destroyed
             /\ destroyLog' = destroyLog
             /\ IF lastCall'.surface # surface
                THEN /\ surface' = lastCall'.surface
                     /\ toolbar' /\ actionsToolbar'
                     /\ toolbarSurface' = lastCall'.surface
                ELSE /\ surface' = surface
                     /\ toolbar' = toolbar
                     /\ actionsToolbar' = actionsToolbar
                     /\ toolbarSurface' = toolbarSurface ]_vars

\* C22 witness: with two surfaces registered, setSurface made the one
\* added first the active surface and the toolbar is set up for it
C22_Witness ==
    /\ lastCall.op = "setSurface"
    /\ thrown = NoError
    /\ Len(surfaces) = 2
    /\ destroyed = {}
    /\ surface = surfaces[1]
    /\ toolbarSurface = surfaces[1]
    /\ toolbar

\* C2: in every reachable state the active surface is null or an element
\* of Target.surfaces.
C2_ActiveSurfaceRegistered ==
    surface = Null \/ surface \in Range(surfaces)

\* C2 witness: the teardown continuation cleared the surfaces of a Target
\* that had an active surface
C2_Witness ==
    /\ lastCall.op = "teardownThen"
    /\ toolbarSurface \in destroyed
    /\ surface = Null
    /\ surfaces = <<>>

\* C3 (as stated): after each onToolbarActive event the active surface's
\* view is deactivated if and only if activeToolbars > 0.
C3_DeactivatedIffCounterPositive ==
    (lastCall.op = "onToolbarActive" /\ thrown = NoError /\ g_quiet)
        => (deactivated[surface] <=> activeToolbars > 0)

\* C3 (amended): after each onToolbarActive event of a run of such events,
\* activeToolbars > 0 implies that the active surface's view is deactivated;
\* the converse holds when the view was active before the counter left 0.
C3_DeactivatedWhileCounterPositive ==
    (lastCall.op = "onToolbarActive" /\ thrown = NoError /\ g_quiet)
        => /\ activeToolbars > 0 => deactivated[surface]
           /\ ~g_pre => (deactivated[surface] <=> activeToolbars > 0)

\* C3 witness: a second toolbar became active while the view, active
\* before, is held deactivated
C3_Witness ==
    /\ ToolbarEvent(TRUE)
    /\ g_quiet /\ ~g_pre
    /\ activeToolbars = 2
    /\ deactivated[surface]

\* C4: when activeToolbars returns to 0 after having been above 0, the
\* view's activation state equals the state it had just before the counter
\* left 0, provided nothing else changed it in between.
C4_RestoredToPriorState ==
    (ToolbarEvent(FALSE) /\ activeToolbars = 0 /\ g_quiet)
        => deactivated[surface] = g_pre

\* C4 witness: the counter came back to 0 and the view, active before, was
\* re-activated
C4_Witness ==
    /\ ToolbarEvent(FALSE)
    /\ activeToolbars = 0
    /\ g_quiet /\ ~g_pre
    /\ wasSurfaceActive = "true"
    /\ ~deactivated[surface]

\* C5: with two toolbars active at overlapping times, an active(false)
\* event that leaves activeToolbars different from 0 re-activates no view;
\* onToolbarActive re-activates a view only in the active(false) event that
\* brings the counter to 0.
C5_OnlyLastInactiveReactivates ==
    [][ (lastCall'.op = "onToolbarActive" /\ thrown' = NoError)
          => /\ (~lastCall'.active /\ activeToolbars' # 0)
                    => deactivated' = deactivated
             /\ (\E s \in SurfaceIds : deactivated[s] /\ ~deactivated'[s])
                    => (~lastCall'.active /\ activeToolbars' = 0) ]_vars

\* C5 witness: two active(true) events, then the first active(false): one
\* toolbar is still active and the view is still deactivated
C5_Witness ==
    /\ ToolbarEvent(FALSE)
    /\ g_quiet /\ ~g_pre
    /\ activeToolbars = 1
    /\ wasSurfaceActive = "true"
    /\ deactivated[surface]

(***************************************************************************)
(* Properties of setPadding (checked under PaddingSpec)                    *)
(***************************************************************************)
\* C6: setPadding merges per side: a side named in the argument takes the
\* new value, a side not named keeps its previous value, and two calls that
\* set different sides give the same padding in either order.
C6_PaddingMergePerSide ==
    [][ geoCall'.op = "setPadding" =>
          LET a == geoCall'.pad
          IN  /\ \A s \in Sides :
                    padding'[s] = IF s \in DOMAIN a THEN a[s] ELSE padding[s]
              /\ toolbarHeight' = padding'.top
              /\ \A b \in UNION { [S -> PadValues] : S \in SUBSET (Sides \ DOMAIN a) } :
                    setPadding(setPadding(GeometryState, a), b).padding
                      = setPadding(setPadding(GeometryState, b), a).padding ]_vars

\* C6 witness: after top was set to 10, setPadding( { left: 5 } ) gave
\* top 10, left 5 and kept the earlier bottom and right
C6_Witness ==
    /\ geoCall.op = "setPadding"
    /\ geoCall.pad = [s \in {"left"} |-> 5]
    /\ padding = [top |-> 10, right |-> 10, bottom |-> 5, left |-> 5]

(***************************************************************************)
(* Properties of the surface controllers (checked under SurfaceSpec)       *)
(***************************************************************************)
\* C7: setReadOnly(r) sets the controller's flag, the model's and the
\* view's read-only state to r before it emits 'readOnly', so every
\* listener observes all three reporting r.
C7_ReadOnlySetBeforeNotification ==
    \A i \in 1..Len(emitted) :
        emitted[i].event = "readOnly" =>
            /\ emitted[i].sawReadOnly = emitted[i].arg
            /\ emitted[i].sawModel = emitted[i].arg
            /\ emitted[i].sawView = emitted[i].arg

\* C7 witness: setReadOnly( true ) on a constructed controller notified
\* its listeners
C7_Witness ==
    /\ surfaceCall.op = "setReadOnly"
    /\ surfaceCall.arg = "true"
    /\ Len(emitted) = 1
    /\ emitted[1].event = "readOnly"
    /\ emitted[1].arg
    /\ emitted[1].sawView

\* C8: between operations every controller's model and view report the
\* same read-only state as the controller's isReadOnly(), also for
\* controllers that adopted the same surface model.
C8_ReadOnlyAgrees ==
    \A c \in built :
        /\ modelReadOnly[model[c]] = readOnly[c]
        /\ viewReadOnly[c] = readOnly[c]

\* C9 (as stated): the placeholder is visible exactly when the document
\* has no content.
C9_VisibleIffNoContent ==
    \A c \in built :
        placeholderVisible[c] <=> ~hasContent(SurfaceState, c)

\* C9 (amended): the placeholder is visible exactly when a non-empty
\* placeholder text is set and the document has no content.
C9_VisibleIffPlaceholderAndNoContent ==
    \A c \in built :
        placeholderVisible[c] <=>
            (Truthy(placeholder[c]) /\ ~hasContent(SurfaceState, c))

\* C9 witness: a transaction removed all content again and the placeholder
\* of a controller on that document is visible
C9_Witness ==
    /\ surfaceCall.op = "transact"
    /\ surfaceCall.arg = "remove"
    /\ \E c \in built :
          /\ getDocument(SurfaceState, c) = surfaceCall.ctl
          /\ Truthy(placeholder[c])
          /\ placeholderVisible[c]

(***************************************************************************)
(* Properties of scroll-into-view (checked under GeometrySpec)             *)
(***************************************************************************)
\* The last step was scrollSelectionIntoView on a focus rectangle taller
\* than the height getViewportDimensions returned
TallSelection(call) ==
    /\ call.op = "scrollSelectionIntoView"
    /\ call.rectHeight >= 0
    /\ call.rectHeight > call.viewportHeight

\* C10 (as stated): scrollSelectionIntoView on a selection whose focus
\* rectangle is taller than the viewport scrolls nothing and schedules no
\* 'scroll' notification.
C10_TallSelectionNotScrolled ==
    TallSelection(geoCall) => geoCall.scrolls = <<>>

\* C10 (amended): scrollSelectionIntoView on a non-native selection whose
\* focus rectangle is taller than the viewport calls no scroll, leaves the
\* scroll container where it is and schedules and emits no notification.
C10_TallVirtualSelectionNotScrolled ==
    [][ (TallSelection(geoCall') /\ ~geoCall'.native)
          => /\ geoCall'.scrolls = <<>>
             /\ scrollTop' = scrollTop
             /\ pendingScrolls' = pendingScrolls
             /\ geoEmitted' = <<>> ]_vars

\* C27 (as stated): a scrollSelectionIntoView call schedules the 'scroll'
\* notification for a native selection only, the notification is emitted
\* only when a scroll so scheduled has completed, and a native selection
\* scrolls without animation, a virtual one with animation.
ScrollScheduled ==
    /\ geoCall'.op = "scrollSelectionIntoView"
    /\ geoCall'.scrolls # <<>>

NotifiedOnlyNativeAfterCompletion ==
    /\ geoCall'.op = "scrollSelectionIntoView" =>
          /\ geoEmitted' = <<>>
          /\ \/ pendingScrolls' = pendingScrolls
             \/ /\ Len(pendingScrolls') = Len(pendingScrolls) + 1
                /\ SubSeq(pendingScrolls', 1, Len(pendingScrolls)) = pendingScrolls
                /\ pendingScrolls'[Len(pendingScrolls')].native = geoCall'.native
    /\ geoEmitted' # <<>> =>
          /\ geoCall'.op = "scrollDone"
          /\ geoEmitted' = <<"scroll">>
          /\ \E i \in 1..Len(pendingScrolls) :
                /\ pendingScrolls[i].native
                /\ pendingScrolls' = SubSeq(pendingScrolls, 1, i - 1)
                                       \o SubSeq(pendingScrolls, i + 1, Len(pendingScrolls))
    /\ geoCall'.op = "scrollDone" =>
          \A i \in 1..Len(pendingScrolls) :
              (/\ ~pendingScrolls[i].native
               /\ pendingScrolls' = SubSeq(pendingScrolls, 1, i - 1)
                                       \o SubSeq(pendingScrolls, i + 1, Len(pendingScrolls)))
                 => \/ geoEmitted' = <<>>
                    \/ \E j \in 1..Len(pendingScrolls) :
                          /\ pendingScrolls[j].native
                          /\ pendingScrolls' =
                                 SubSeq(pendingScrolls, 1, j - 1)
                                   \o SubSeq(pendingScrolls, j + 1, Len(pendingScrolls))

C27_NativeInstantVirtualAnimated ==
    [][ /\ NotifiedOnlyNativeAfterCompletion
        /\ ScrollScheduled =>
              \A k \in 1..Len(geoCall'.scrolls) :
                  geoCall'.scrolls[k].animate = ~geoCall'.native ]_vars

\* C27 (amended): as stated, except that the animation is the one of the
\* selection kind only when the caller's scrollConfig sets no `animate`;
\* an `animate` of the scrollConfig decides otherwise.
C27_AnimateUnlessOverridden ==
    [][ /\ NotifiedOnlyNativeAfterCompletion
        /\ ScrollScheduled =>
              \A k \in 1..Len(geoCall'.scrolls) :
                  geoCall'.scrolls[k].animate =
                      IF geoCall'.animate = "unset"
                      THEN ~geoCall'.native
                      ELSE geoCall'.animate = "true" ]_vars

\* C27 witness: the scroll of a native selection has completed and
\* 'scroll' was emitted, while the scroll of a virtual selection is still
\* under way
C27_Witness ==
    /\ geoCall.op = "scrollDone"
    /\ geoEmitted = <<"scroll">>
    /\ \E i \in 1..Len(pendingScrolls) :
          ~pendingScrolls[i].native /\ pendingScrolls[i].animate

\* C28: scrollSelectionIntoView with an unresolved focus rectangle or an
\* unresolved surface rectangle throws nothing, calls no scroll, schedules
\* and emits no 'scroll' and leaves the padding as it was.
C28_UnresolvedRectIsNoOp ==
    [][ (geoCall'.op = "scrollSelectionIntoView" /\ geoCall'.rectHeight = -1)
          => /\ ~geoCall'.thrown
             /\ geoCall'.scrolls = <<>>
             /\ geoEmitted' = <<>>
             /\ pendingScrolls' = pendingScrolls
             /\ scrollTop' = scrollTop
             /\ padding' = padding
             /\ toolbarHeight' = toolbarHeight ]_vars

\* C28 witness: a call with an unresolved rectangle returned while the
\* padding was set and a scroll was under way
C28_Witness ==
    /\ geoCall.op = "scrollSelectionIntoView"
    /\ geoCall.rectHeight = -1
    /\ padding.top = 10
    /\ pendingScrolls # <<>>

\* C26: every step that changes the padding runs the visible-padding
\* adjustment and triggers scroll-into-view.
PaddingCalls(op) ==
    \E k \in 1..Len(geoCall'.calls) : geoCall'.calls[k].op = op

C26_PaddingChangeAdjustsAndScrolls ==
    [][ padding' # padding
          => /\ PaddingCalls("adjustVisiblePadding")
             /\ PaddingCalls("scrollSelectionIntoView") ]_vars

\* C10 witness: a non-native selection of height 40 in a viewport of
\* positive but smaller height was left alone
C10_Witness ==
    /\ TallSelection(geoCall)
    /\ ~geoCall.native
    /\ geoCall.viewportHeight > 0
    /\ geoCall.scrolls = <<>>

(***************************************************************************)
(* Teardown and destruction of the Target                                  *)
(***************************************************************************)
\* number of entries of a log equal to x
Count(log, x) == Cardinality({ i \in 1..Len(log) : log[i] = x })

\* position of surface s in a destruction log (0 when absent)
DestroyedAt(log, s) ==
    IF \E i \in 1..Len(log) : log[i] = s
    THEN CHOOSE i \in 1..Len(log) : log[i] = s
    ELSE 0

\* C15: teardown() is idempotent: every call returns the promise the first
\* call returned, and unbinding the handlers, tearing down the toolbar and
\* clearing the surfaces are each done at most once by teardown, whether
\* the first teardown is still in flight or has completed.
C15_TeardownIdempotent ==
    /\ lastReturned = firstReturned
    /\ Count(teardownLog, "unbindHandlers") <= 1
    /\ Count(teardownLog, "teardownToolbar") <= 1
    /\ Count(teardownLog, "clearSurfaces") <= 1

\* teardown() has just been called again on a Target whose teardown had
\* completed, with two surfaces destroyed by it
C15_Witness ==
    /\ lastCall.op = "teardown"
    /\ teardownPromise = "resolved"
    /\ lastReturned = 1
    /\ Count(teardownLog, "clearSurfaces") = 1
    /\ Len(destroyLog) = MaxSurfaces

\* C16: in a teardown the handlers are unbound first, the surfaces are
\* cleared only after the toolbar teardown promise has resolved, they are
\* destroyed in the reverse of the order addSurface added them, and the
\* Target is left with no surfaces and no active surface.
C16_TeardownOrder ==
    [][lastCall'.op = "teardownThen" =>
          /\ ~handlersBound'
          /\ teardownLog' = << "unbindHandlers", "teardownToolbar",
                               "toolbarResolved", "clearSurfaces" >>
          /\ \A i \in 1..Len(surfaces) :
                 DestroyedAt(destroyLog', surfaces[i]) > Len(destroyLog)
          /\ \A i, j \in 1..Len(surfaces) :
                 i < j => DestroyedAt(destroyLog', surfaces[j])
                            < DestroyedAt(destroyLog', surfaces[i])
          /\ surfaces' = <<>>
          /\ surface' = Null
    ]_vars

\* the continuation of teardown() has just destroyed two surfaces, one of
\* which was the active surface
C16_Witness ==
    /\ lastCall.op = "teardownThen"
    /\ destroyLog = << 2, 1 >>
    /\ toolbarSurface # Null
    /\ surfaces = <<>>
    /\ surface = Null

\* C17: the continuation of destroy() removes the root element and clears
\* ve.init.target only when the teardown has completed and every surface
\* of the Target has been destroyed.
C17_RootRemovedAfterAllSurfacesDestroyed ==
    [][lastCall'.op = "destroyThen" =>
          /\ teardownPromise = "resolved"
          /\ surfaces = <<>>
    ]_vars

(***************************************************************************)
(* Command dispatch                                                        *)
(***************************************************************************)
\* the last step was executeWithSource with a Trigger
TriggerGiven == cmdCall.op = "executeWithSource" /\ cmdCall.arg.kind = "trigger"
\* the string of that Trigger, and the command the listener holds for it
GivenString == TriggerToString(cmdCall.arg.chord)
FoundCommand == commandsByTrigger[GivenString]
\* the last step was executeWithSource with an action name and a method name
ActionGiven ==
    /\ cmdCall.op = "executeWithSource"
    /\ cmdCall.arg.kind = "string"
    /\ cmdCall.method \in MethodNames

\* executeWithSource called the execute method of command n exactly once,
\* with the controller as first argument, and made no other call
ExecutedOnce(n) ==
    /\ Len(cmdInvoked) = 1
    /\ cmdInvoked[1].callee = "command"
    /\ cmdInvoked[1].name = n
    /\ cmdInvoked[1].method = "execute"
    /\ cmdInvoked[1].args[1] = "this"

\* C11 as stated: a Trigger built from the chord of a command that is
\* registered with that trigger and is in this.commands resolves to that
\* command, whose execute is called exactly once with the surface first.
C11_RegisteredTriggerResolves ==
    TriggerGiven =>
        \A n \in commands : registry[n] = GivenString => ExecutedOnce(n)

\* C11 (amended): the same for a command that was registered with the
\* trigger when the controller was constructed and is the only command of
\* this.commands registered with that trigger string.
C11_TriggerRegisteredAtConstructionResolves ==
    TriggerGiven =>
        \A n \in commands :
            ( /\ registryAtBuild[n] = GivenString
              /\ \A m \in commands \ { n } : registryAtBuild[m] # GivenString )
            => ExecutedOnce(n)

\* "bold" was registered with shift+ctrl+b written in another order than
\* the chord dispatched, next to another command of the list
C11_Witness ==
    /\ TriggerGiven
    /\ cmdCall.arg.chord = << "shift", "ctrl", "b" >>
    /\ registryAtBuild["bold"] = << "ctrl", "shift", "b" >>
    /\ commands = { "bold", "italic" }
    /\ registryAtBuild["italic"] = << "ctrl", "i" >>
    /\ ExecutedOnce("bold")

\* C18: executeWithSource returns false, throws nothing and calls nothing
\* when the Trigger has no command in the trigger listener, when the action
\* factory does not support the method of the action, and when the
\* arguments are neither a Trigger nor two strings.
C18_SoftFailure ==
    ( /\ cmdCall.op = "executeWithSource"
      /\ \/ TriggerGiven /\ FoundCommand = ""
         \/ ActionGiven /\ ~doesActionSupportMethod(cmdCall.arg.name, cmdCall.method)
         \/ cmdCall.arg.kind = "other"
         \/ cmdCall.arg.kind = "string" /\ cmdCall.method \notin MethodNames )
    => ( cmdResult = "false" /\ cmdInvoked = << >> /\ ~cmdThrown )

\* a known action was asked for a method it does not support
C18_Witness ==
    /\ ActionGiven
    /\ cmdCall.arg.name = "annotation"
    /\ cmdCall.method = "insert"
    /\ cmdResult = "false"
    /\ cmdInvoked = << >>

\* C19 as stated: with a Trigger the result is true exactly when a command
\* was found and its execute invoked, and false when none was found.
C19_TrueIffCommandFound ==
    TriggerGiven =>
        /\ cmdResult = "true" <=> ( FoundCommand # "" /\ ExecutedOnce(FoundCommand) )
        /\ FoundCommand = "" => cmdResult = "false"

\* C19 (amended): with a Trigger, a found command's execute is invoked once
\* with the controller, false and the source, and the result is what execute
\* returned; when no command is found nothing is invoked and the result is
\* false.
C19_ResultOfFoundCommand ==
    TriggerGiven =>
        IF FoundCommand # ""
        THEN /\ ExecutedOnce(FoundCommand)
             /\ cmdInvoked[1].args = << "this", "false", cmdCall.source >>
             /\ cmdResult = cmdCall.ret
        ELSE /\ cmdInvoked = << >>
             /\ cmdResult = "false"

\* a bound command was found and invoked, and its execute returned false
C19_Witness ==
    /\ TriggerGiven
    /\ FoundCommand = "italic"
    /\ ExecutedOnce("italic")
    /\ cmdCall.source = "keyboard"
    /\ cmdCall.ret = "false"
    /\ cmdResult = "false"

\* C20: with an action name and a method name the method is invoked (on a
\* new action object) only if the factory reports support, and the result is
\* then the boolean true for a return value of undefined or a truthy value,
\* and false for false or another falsy value.
C20_ActionResultCoerced ==
    ActionGiven =>
        /\ cmdInvoked # << >> => doesActionSupportMethod(cmdCall.arg.name, cmdCall.method)
        /\ doesActionSupportMethod(cmdCall.arg.name, cmdCall.method) =>
              /\ Len(cmdInvoked) = 1
              /\ cmdInvoked[1].callee = "action"
              /\ cmdInvoked[1].name = cmdCall.arg.name
              /\ cmdInvoked[1].method = cmdCall.method
              /\ cmdResult \in { "true", "false" }
              /\ cmdResult = "true" <=> cmdCall.ret \in { "undefined", "true", "object" }
              /\ cmdResult = "false" <=> cmdCall.ret \in { "false", "null" }

\* a supported method returned undefined
C20_Witness ==
    /\ ActionGiven
    /\ doesActionSupportMethod(cmdCall.arg.name, cmdCall.method)
    /\ Len(cmdInvoked) = 1
    /\ cmdCall.ret = "undefined"
    /\ cmdResult = "true"

\* C21: the constructor sets the command list to the included commands
\* (config.includeCommands, or the names of the registry when that is not
\* given) minus config.excludeCommands, and no step after the construction
\* changes the list.
C21_CommandsDerivedOnce ==
    [][ /\ cmdCall'.op = "constructor" =>
              commands' =
                  (IF cmdCall'.include = { "default" }
                   THEN { n \in CommandNames : registry[n] # Unregistered }
                   ELSE cmdCall'.include) \ cmdCall'.exclude
        /\ dispatcher => commands' = commands ]_vars

\* C21 witness: a command registered after the construction is in the
\* registry and not in the list, and a command was executed since
C21_Witness ==
    /\ dispatcher
    /\ cmdCall.op = "executeWithSource"
    /\ commands = { "bold" }
    /\ registryAtBuild["italic"] = Unregistered
    /\ registry["italic"] # Unregistered

(***************************************************************************)
(* Destruction of a surface controller                                     *)
(***************************************************************************)
\* position of a statement in the record of the last destroy() (0: absent)
DidAt(what) ==
    IF \E i \in 1..Len(destroyTrace) : destroyTrace[i] = what
    THEN CHOOSE i \in 1..Len(destroyTrace) : destroyTrace[i] = what
    ELSE 0
DidOnce(what) == Count(destroyTrace, what) = 1
DidBefore(a, b) == DidOnce(a) /\ DidOnce(b) /\ DidAt(a) < DidAt(b)

\* C12: a second destroy() on the same controller does not throw, and the
\* 'destroy' notification has been emitted exactly once in total.
C12_DestroyTwiceEmitsOnce ==
    ( lcCall.op = "destroy" /\ destroyCalls[lcCall.ctl] = 2 )
    => ( ~lcThrown /\ destroyEmits[lcCall.ctl] = 1 )

\* C13: destroy() destroys context, dialogs, toolbarDialogs and view in
\* that order, removes the DOM elements only after all four, and emits
\* 'destroy' only after the DOM elements are removed.
C13_DestroyOrder ==
    ( lcCall.op = "destroy" /\ ~lcThrown ) =>
        /\ DidBefore("context.destroy", "dialogs.destroy")
        /\ DidBefore("dialogs.destroy", "toolbarDialogs.destroy")
        /\ DidBefore("toolbarDialogs.destroy", "view.destroy")
        /\ DidBefore("view.destroy", "$element.remove")
        /\ DidBefore("view.destroy", "globalOverlay.remove")
        /\ DidBefore("$element.remove", "emit destroy")
        /\ DidBefore("globalOverlay.remove", "emit destroy")
        /\ destroyTrace[Len(destroyTrace)] = "emit destroy"

\* an initialized controller with a debug bar, sharing its model with
\* another controller, has been destroyed
C13_Witness ==
    /\ lcCall.op = "destroy"
    /\ ~lcThrown
    /\ debugBar[lcCall.ctl]
    /\ destroyCalls[lcCall.ctl] = 1
    /\ life[lcCall.ctl] = "destroyed"
    /\ \E b \in Ctl : b # lcCall.ctl /\ life[b] = "alive"
                      /\ lcModel[b] = lcModel[lcCall.ctl]
    /\ destroyEmits[lcCall.ctl] = 1

\* C14: an event of the surface model (select, focus, blur) or of its
\* document (transact) invokes no handler of a destroyed controller.
C14_NoHandlerOfDestroyedController ==
    lcCall.op \in { "modelEvent", "documentEvent" } =>
        \A h \in lcInvoked : life[h.ctl] # "destroyed"

(***************************************************************************)
(* Properties of the key-down handlers (checked under KeySpec)             *)
(***************************************************************************)
KeyHandled == keyCall.op \in { "onDocumentKeyDown", "onTargetKeyDown" }

\* the listener of the handler that ran last, and its name
HandlerListener ==
    IF keyCall.op = "onDocumentKeyDown" THEN documentTriggerListener
    ELSE targetTriggerListener
HandlerListenerName ==
    IF keyCall.op = "onDocumentKeyDown" THEN "document" ELSE "target"

\* the command the listener of the handler has for the chord of the event
BoundCommand ==
    IF isComplete(keyCall.chord)
    THEN HandlerListener[TriggerToString(keyCall.chord)]
    ELSE ""

\* C23: a key-down handler calls preventDefault exactly when the trigger is
\* complete, its own listener has a command for it, there is an active
\* surface and the command's execute on that surface returned a truthy
\* value; an incomplete trigger is looked up in no listener and executes
\* nothing.
C23_PreventDefaultIffExecuted ==
    KeyHandled =>
        /\ keyCall.prevented <=>
               /\ isComplete(keyCall.chord)
               /\ BoundCommand # ""
               /\ keyCall.active # Null
               /\ TruthyValue(keyCall.ret)
        /\ ~isComplete(keyCall.chord) =>
               keyCall.lookups = << >> /\ keyCall.executed = << >>
        /\ \A i \in 1..Len(keyCall.lookups) :
               keyCall.lookups[i].listener = HandlerListenerName
        /\ \A i \in 1..Len(keyCall.executed) :
               /\ keyCall.executed[i].command = BoundCommand
               /\ keyCall.executed[i].surface = keyCall.active
        /\ keyCall.prevented => Len(keyCall.executed) = 1

\* C23 witness: the target handler suppressed the default of a chord
\* written with its modifiers in another order, after the command returned
\* a promise, while the document listener has nothing for that chord
C23_Witness ==
    /\ keyCall.op = "onTargetKeyDown"
    /\ keyCall.chord = << "shift", "ctrl", "b" >>
    /\ keyCall.ret = "promise"
    /\ keyCall.prevented
    /\ documentTriggerListener[TriggerToString(keyCall.chord)] = ""

(***************************************************************************)
(* Properties of the floating toolbar (checked under FloatSpec)            *)
(***************************************************************************)
ActivePopups == { g \in ToolGroups : isPopupToolGroup(g) /\ toolgroupActive[g] }

\* C24: after onContainerScroll with a floatable toolbar the toolbar was
\* told once, to float when scrollTop + toolbarScrollOffset is greater than
\* its top offset and to unfloat otherwise, and the active popup toolgroups
\* were repositioned only when the floating state differs from before; a
\* toolbar that is not floatable was told nothing and nothing was
\* repositioned.
C24_FloatWhenScrolledPast ==
    floatCall.op = "onContainerScroll" =>
        IF floatable
        THEN /\ floatCall.told =
                   << IF floatCall.scrollTop + toolbarScrollOffset > ElementOffsetTop
                      THEN "float" ELSE "unfloat" >>
             /\ floatCall.positioned =
                   IF floating # floatCall.wasFloating THEN ActivePopups ELSE {}
        ELSE /\ floatCall.told = << >>
             /\ floatCall.positioned = {}
             /\ floating = floatCall.wasFloating

\* C24 witness: with a trigger offset of 10 a scroll to the toolbar's top
\* offset floated the toolbar and repositioned the one open popup
C24_Witness ==
    /\ floatCall.op = "onContainerScroll"
    /\ toolbarScrollOffset = 10
    /\ floatCall.scrollTop = ElementOffsetTop
    /\ floatCall.told = << "float" >>
    /\ ~floatCall.wasFloating
    /\ floatCall.positioned = { "popup1" }
    /\ toolgroupActive["bar"]

(***************************************************************************)
(* Properties of the progress bars (checked under ProgressSpec)            *)
(***************************************************************************)
RECURSIVE Flatten(_)
Flatten(batches) ==
    IF batches = << >> THEN << >>
    ELSE Head(batches) \o Flatten(Tail(batches))

\* the descriptors handed to the dialog, then those in the queue, are the
\* descriptors created, each once and in the order of the calls
EachDeliveredOnce ==
    LET all == Flatten(opened) \o progresses
    IN  /\ Len(all) = progressCreated
        /\ \A i \in 1..Len(all) : all[i].id = i

\* C25: a flush opens the dialog once, with the whole queue in call order,
\* and leaves the queue empty; a non-empty queue has its flush scheduled;
\* every descriptor created is in exactly one batch or still in the queue.
C25_FlushDeliversWholeQueueOnce ==
    [][ /\ progressCall'.op = "showProgress" =>
              /\ opened' = Append(opened, progresses)
              /\ progresses # << >>
              /\ progresses' = << >>
        /\ progressCall'.op = "createProgress" =>
              /\ opened' = opened
              /\ Len(progresses') = Len(progresses) + 1
              /\ SubSeq(progresses', 1, Len(progresses)) = progresses
        /\ EachDeliveredOnce'
        /\ progresses' # << >> => flushPending' ]_vars

\* C25 witness: a burst of two calls was flushed as one batch, and a third
\* descriptor as a second batch
C25_Witness ==
    /\ Len(opened) = 2
    /\ Len(opened[1]) = 2
    /\ Len(opened[2]) = 1
    /\ progresses = << >>
    /\ ~flushPending

(***************************************************************************)
(* Properties of the editing modes and of addSurface (checked under        *)
(* ModeSpec)                                                               *)
(***************************************************************************)
\* the modes whose class this.$element carries
ClassedModes == { m \in ModeNames : ModeClass(m) \in classes }

DefaultModeValid ==
    targetBuilt =>
        /\ defaultMode \in Range(modes)
        /\ ClassedModes = { defaultMode }

\* C29: once the Target is constructed defaultMode is one of its modes and
\* the element carries the class of that mode and of no other; a
\* setDefaultMode call with an available mode makes it the default, one
\* with an unavailable mode changes neither the default nor the classes,
\* and the constructor's call with an unavailable or missing mode selects
\* the first mode of the list.
C29_DefaultModeAmongModes ==
    [][ /\ DefaultModeValid'
        /\ modeCall'.op = "setDefaultMode" =>
              IF modeCall'.arg \in Range(modes)
              THEN defaultMode' = modeCall'.arg
              ELSE defaultMode' = defaultMode /\ classes' = classes
        /\ modeCall'.op = "constructor" =>
              IF modeCall'.arg \in Range(modes')
              THEN defaultMode' = modeCall'.arg
              ELSE defaultMode' = modes'[1] ]_vars

\* C29 witness: a Target constructed without a default mode, whose first
\* mode is "source", was switched to "visual"
C29_Witness ==
    /\ modeCall.op = "setDefaultMode"
    /\ modes = << "source", "visual" >>
    /\ defaultMode = "visual"
    /\ ClassedModes = { "visual" }
    /\ "ve-init-target-ie-or-edge" \in classes

\* C30: the surface addSurface returns has the Target as its target, is
\* built from the document or surface model given, and has the mode of
\* the config, or the Target's default mode when the config has none.
C30_AddedSurfaceBelongsToTarget ==
    modeCall.op = "addSurface" =>
        /\ modeCall.returned.made
        /\ modeCall.returned.target = ThisTarget
        /\ modeCall.returned.source = modeCall.doc
        /\ modeCall.returned.mode =
               IF modeCall.configMode # "undefined" THEN modeCall.configMode
               ELSE defaultMode

(***************************************************************************)
(* Properties of ve.Surface (checked under LegacySpec)                     *)
(***************************************************************************)
\* the triggers of the entry the trigger registry holds for a command
TriggersOf(name) ==
    IF name \in LegacyNames /\ legacyTriggerRegistry[name].registered
    THEN legacyTriggerRegistry[name].trigger
    ELSE << >>

\* entry i of this.options.commands names no registered command
UnknownEntry(i) == legacyOptions[i] \notin legacyCommandRegistry

\* the places of the triggers of entry i that have no key
IncompleteTriggers(i) ==
    { j \in 1..Len(TriggersOf(legacyOptions[i])) :
        LegacyToString(TriggersOf(legacyOptions[i])[j]) = << >> }

\* the constructor has just run setupCommands
SetupRan == legacyCall.op = "constructor"

SetupFailed ==
    /\ legacyCall.thrown # "none"
    /\ legacyBuilt = "failed"
    /\ ~legacyListening

\* the places in this.options.commands setupCommands wrote a trigger for
WrittenFor(i) == { k \in 1..Len(legacyCall.writes) : legacyCall.writes[k].entry = i }

\* C31 (as stated): when a listed command name is not in the command
\* registry, or one of its triggers normalizes to the empty string, command
\* setup throws and nothing is registered for that entry.
C31_SetupThrowsWithoutRegistering ==
    SetupRan =>
        \A i \in 1..Len(legacyOptions) :
            (UnknownEntry(i) \/ IncompleteTriggers(i) # {}) =>
                /\ SetupFailed
                /\ WrittenFor(i) = {}

\* C31 (amended): when a listed command name is not in the command registry,
\* or one of its triggers normalizes to the empty string, command setup
\* throws; nothing is registered for an unknown name, nor for the incomplete
\* trigger and the triggers after it, while the triggers of the entry that
\* come before the incomplete one may already be in the table.
C31_SetupThrowsAtIncompleteTrigger ==
    SetupRan =>
        \A i \in 1..Len(legacyOptions) :
            (UnknownEntry(i) \/ IncompleteTriggers(i) # {}) =>
                /\ SetupFailed
                /\ UnknownEntry(i) => WrittenFor(i) = {}
                /\ \A k \in WrittenFor(i), j \in IncompleteTriggers(i) :
                       legacyCall.writes[k].index < j

\* setup threw at the second trigger of an entry whose first trigger had
\* been written to the table
C31_Witness ==
    /\ SetupRan
    /\ legacyCall.thrown = "Incomplete command"
    /\ \E i \in 1..Len(legacyOptions) :
          /\ IncompleteTriggers(i) = { 2 }
          /\ WrittenFor(i) # {}
          /\ legacyCommands[legacyCall.writes[Len(legacyCall.writes)].trigger]
                 = legacyOptions[i]

\* the places (entry, trigger) of this.options.commands whose trigger
\* normalizes to the trigger string t
LoadPositions(t) ==
    { p \in (1..Len(legacyOptions)) \X (1..2) :
        /\ p[2] <= Len(TriggersOf(legacyOptions[p[1]]))
        /\ LegacyToString(TriggersOf(legacyOptions[p[1]])[p[2]]) = t }

\* the command of the last of these places, "" when there is none
LastLoaded(t) ==
    IF LoadPositions(t) = {}
    THEN ""
    ELSE LET last == CHOOSE p \in LoadPositions(t) :
                         \A q \in LoadPositions(t) :
                             \/ q[1] < p[1]
                             \/ q[1] = p[1] /\ q[2] <= p[2]
         IN  legacyOptions[last[1]]

\* the trigger strings the triggers of a registry entry normalize to
StringsOf(data) ==
    { LegacyToString(data.trigger[j]) : j \in 1..Len(data.trigger) }

\* after a setup that did not throw, every trigger string leads to the
\* command loaded last for it
SetupLastWins ==
    (SetupRan /\ legacyCall.thrown = "none") =>
        \A t \in LegacyTriggerStrings : legacyCommands[t] = LastLoaded(t)

\* a later registration that did not throw makes its trigger strings lead
\* to the command registered, and leaves the others
RegisterLastWins ==
    (/\ legacyCall'.op = "registerTrigger"
     /\ legacyListening
     /\ legacyCall'.thrown = "none") =>
        \A t \in LegacyTriggerStrings :
            legacyCommands'[t] =
                IF t \in StringsOf(legacyTriggerRegistry'[legacyCall'.name])
                THEN legacyCall'.name
                ELSE legacyCommands[t]

\* executing a trigger the table holds, on an enabled surface, invokes the
\* action the table leads to and no other
ExecuteRunsTableEntry ==
    (/\ legacyCall.op = "execute"
     /\ legacyCall.arg.kind = "command"
     /\ legacyEnabled
     /\ LegacyToString(legacyCall.arg.chord) \in LegacyTriggerStrings
     /\ legacyCommands[LegacyToString(legacyCall.arg.chord)] # "") =>
        legacyCall.invoked =
            << LegacyAction(legacyCommands[LegacyToString(legacyCall.arg.chord)]) >>

\* C34: when the same normalized trigger string is loaded for two commands,
\* at setup or by a later 'register' event, the trigger table leads to the
\* action of the command loaded last, and executing the trigger runs that
\* action only.
C34_LastLoadedTriggerWins ==
    /\ [](SetupLastWins /\ ExecuteRunsTableEntry)
    /\ [][RegisterLastWins]_vars

\* a trigger both listed commands are registered with is executed, and the
\* action of the second command runs
C34_Witness ==
    /\ legacyCall.op = "execute"
    /\ legacyCall.arg.kind = "command"
    /\ legacyOptions = << "bold", "italic" >>
    /\ legacyRegisters = 0
    /\ LET t == LegacyToString(legacyCall.arg.chord)
       IN  /\ t \in StringsOf(legacyTriggerRegistry["bold"])
           /\ t \in StringsOf(legacyTriggerRegistry["italic"])
           /\ legacyCall.invoked = << LegacyAction("italic") >>

(***************************************************************************)
(* Properties of the debounced scroll (checked under SelectSpec)           *)
(***************************************************************************)
\* the scrollSelectionIntoView calls the last step made
ScrollCalls ==
    { k \in 1..Len(geoCall.calls) : geoCall.calls[k].op = "scrollSelectionIntoView" }

\* every ve.scrollIntoView call of the last step was made for the selection
\* and with the padding the controller holds now
ScrollsSeeCurrentState ==
    \A k \in 1..Len(geoCall.scrolls) :
        /\ geoCall.scrolls[k].animate = (selection # "native")
        /\ geoCall.scrolls[k].padding = [s \in Sides |-> padding[s] + 5]

\* C32: a burst of 'select' events that the dragging check lets through
\* ends in one scrollSelectionIntoView call, made when the timer fires after
\* the last event and never by the handler of an event; that call sees the
\* state as the handlers left it.
C32_SelectBurstScrollsOnce ==
    /\ selectCall.op = "onModelSelect" =>
           /\ ScrollCalls = {}
           /\ geoCall.scrolls = << >>
           /\ ~selectCall.suppressed => scrollTimer
    /\ scrollTimer <=> selectBurst > 0
    /\ selectCall.op = "scrollTimeout" =>
           /\ selectCall.burst >= 1
           /\ Cardinality(ScrollCalls) = 1
           /\ ~scrollTimer
           /\ ScrollsSeeCurrentState

\* the timer fired after a burst of two events or more, and one scroll was
\* made
C32_Witness ==
    /\ selectCall.op = "scrollTimeout"
    /\ selectCall.burst >= 2
    /\ Cardinality(ScrollCalls) = 1
    /\ Len(geoCall.scrolls) = 1

\* the last step ran a handler of 'position' or of the context's 'resize',
\* and a padding was reported to it
PaddingHandlerRan ==
    /\ selectCall.op \in { "onViewPosition", "onContextResize" }
    /\ selectCall.hasPadding

\* C33 (as stated): the scroll for a selection change runs without a
\* coalescing delay, and the scroll for a position or resize event is
\* deferred through the 500 ms debounce, not run inside the handler.
C33_SelectImmediatePositionDebounced ==
    /\ (selectCall.op = "onModelSelect" /\ ~selectCall.suppressed) =>
           ScrollCalls # {}
    /\ PaddingHandlerRan => (ScrollCalls = {} /\ scrollTimer)

\* the handlers of 'position' and of the context's 'resize' leave the
\* 500 ms timer as it is
PaddingHandlersLeaveTimer ==
    selectCall'.op \in { "onViewPosition", "onContextResize" } =>
        scrollTimer' = scrollTimer

\* C33 (amended): the scroll for a selection change is deferred through the
\* 500 ms debounce and does not run inside the 'select' handler; the scroll
\* for a position event or a context resize runs inside the handler, which
\* does not touch the 500 ms timer.
C33_SelectDebouncedPositionSynchronous ==
    /\ []((selectCall.op = "onModelSelect" /\ ~selectCall.suppressed) =>
              (ScrollCalls = {} /\ scrollTimer))
    /\ [](PaddingHandlerRan =>
              /\ ScrollCalls # {}
              /\ geoCall.calls[Len(geoCall.calls)].op = "scrollSelectionIntoView")
    /\ [][PaddingHandlersLeaveTimer]_vars

\* a position event scrolled while the timer armed by a selection change
\* was still waiting
C33_Witness ==
    /\ selectCall.op = "onViewPosition"
    /\ selectCall.hasPadding
    /\ ScrollCalls # {}
    /\ Len(geoCall.scrolls) >= 1
    /\ scrollTimer
    /\ selectBurst >= 1

(***************************************************************************)
(* Properties of the toolbar counter (checked under Spec)                  *)
(***************************************************************************)
\* C35: Target.activeToolbars is never negative, whatever the sequence of
\* active(true) and active(false) events of the toolbars, an active(false)
\* with no active(true) before it included.
C35_ActiveToolbarsNonNegative == activeToolbars >= 0

(***************************************************************************)
(* Claims about the toolbar events of the Target                           *)
(***************************************************************************)
\* C36: when the active surface changes between the 'active' event that
\* deactivated a view and the one that brings the counter back to 0, the
\* view activated again is the view that was deactivated, and once the
\* counter is 0 no view is still deactivated by the toolbar.
C36_ToolbarReactivatesItsView ==
    /\ wiringCall.activated \subseteq wiringCall.owed
    /\ activeToolbars = 0 => toolbarDeactivated = {}

\* an emit by a toolbar that setupToolbar has set up has made all its calls
EmitDone ==
    /\ emitting.event # "none"
    /\ emitting.connects >= 1
    /\ emitting.left = 0

\* C37: however often the surface was switched, one 'active' event changes
\* activeToolbars by exactly 1 and one 'resize' event sets the padding of the
\* surface exactly once.
C37_OneEventOneHandlerRun ==
    EmitDone =>
        /\ emitting.event = "active" =>
               activeToolbars - emitting.before \in { 1, -1 }
        /\ emitting.event = "resize" => emitting.runs = 1

\* C38: once teardown() has torn down the toolbars the Target holds none,
\* whatever runs later.
C38_NoToolbarAfterTeardown ==
    teardownPromise # "null" => ~toolbar /\ ~actionsToolbar

(***************************************************************************)
(* Claims about the global reference                                       *)
(***************************************************************************)
\* a Target was destroyed while ve.init.target referred to another one
DestroyedOther ==
    /\ globalCall.op = "destroyThen"
    /\ globalCall.before # Null
    /\ globalCall.before # globalCall.target

\* C39: destroying a Target while ve.init.target refers to another Target
\* leaves the reference as it was.
C39_DestroyKeepsOtherTarget ==
    DestroyedOther => veInitTargetRef = globalCall.before

(***************************************************************************)
(* Claims about the command list and the dispatch operations               *)
(***************************************************************************)
\* the commands whose execute the last operation called
ExecutedCommands ==
    { cmdInvoked[i].name :
        i \in { j \in DOMAIN cmdInvoked : cmdInvoked[j].callee = "command" } }

\* C40: execute, executeWithSource and executeCommand never execute a
\* command whose name is not in the command list of the surface.
C40_OnlyListedCommandsExecuted ==
    cmdCall.op \in { "execute", "executeWithSource", "executeCommand" } =>
        ExecutedCommands \subseteq commands

====
